---- MODULE Spec2Model ----
(***************************************************************************)
(* Model of the maintenance scripts of the repository (src/scripts/*.py,   *)
(* src/*.py).  Every script reads one document, locates marker lines, cuts *)
(* the document at them and writes one or more files.                      *)
(*                                                                         *)
(* A document is a sequence of lines.  A line is a record                  *)
(*   [src, kind, sym, exp]                                                 *)
(* kind : what the line is (a declaration, an import, a comment marker,    *)
(*        a blank line, any other text, a line synthesized by a script),   *)
(* sym  : the symbol a declaration declares / the name of a marker,        *)
(* exp  : the number of `export' keywords in front of a declaration,       *)
(* src  : the 1-based index the line had in the document the run started   *)
(*        from (0 for a line a script synthesized).  src is bookkeeping    *)
(*        only: no script reads it.                                        *)
(* Offsets are 0-based as in the Python sources; -1 is "not found".        *)
(*                                                                         *)
(* Spec        : one run (and a second run) of a marker-based script.      *)
(* SpecRewrite : a batch of runs of the two line-number-based scripts on   *)
(*               coursebuilder.html; script, pc, loc and status then hold  *)
(*               one value per run of the batch.                           *)
(* SpecAtlas   : one run (and a second run) of update-atlas-filter-bar,    *)
(*               update-atlas-page and update-route.                       *)
(* SpecAll     : the runs of Spec and of SpecAtlas together.               *)
(* SpecClean   : runs of cleanup-html-simple and cleanup-html-structure    *)
(*               on one page; a page is a sequence of tokens (tags,        *)
(*               comments, white space, text).                             *)
(* SpecBatch   : main() of update_nav_classes and of the two cleaners on   *)
(*               two files; for update_nav_classes a file is a sequence    *)
(*               of pieces of text (class=, quotes, nav__, link, ...).     *)
(* SpecIndent  : the indentation loop of cleanup-html-simple, line by      *)
(*               line; a line is the kind of its stripped text.            *)
(* SpecIsced   : one run of rebuild-isced-data on the rows of the CSV; a   *)
(*               code is the sequence of its digits.                       *)
(***************************************************************************)
EXTENDS Integers, Sequences, FiniteSets, TLC

VARIABLES
    script,   \* the script this run executes
    fs,       \* the file system: path -> [exists, lines]
    fs0,      \* the file system when the current run started (history)
    fsInit,   \* the file system before the first run (history)
    run,      \* 1 for the first run of the script, 2 for a second run on its results
    pc,       \* control point of the running script
    loc,      \* the script's local variables
    status,   \* "running", "ok" (exit 0) or "err" (non-zero exit / exception)
    wrote     \* the paths opened for writing so far by the current run, in order

vars == <<script, fs, fs0, fsInit, run, pc, loc, status, wrote>>

\* ------------------------------------------------------------------ bounds
\* extra lines inserted into a canonical document
MaxExtra == 2

\* longest free-form document
MaxLen == 4

\* ------------------------------------------------------------------ lines
L(kind, sym, exp) == [src |-> 0, kind |-> kind, sym |-> sym, exp |-> exp]

Decl(sym, exp) == L("decl", sym, exp)

Other == L("other", "", 0)

Blank == L("blank", "", 0)

Hdr(name) == L("header", name, 0)

\* a document as read from disk: line i carries src = i
Stamp(doc) == [i \in 1..Len(doc) |-> [doc[i] EXCEPT !.src = i]]

\* the text of a file, without the bookkeeping field
Text(lines) == [i \in 1..Len(lines) |-> [lines[i] EXCEPT !.src = 0]]

Absent == [exists |-> FALSE, lines |-> <<>>]

File(lines) == [exists |-> TRUE, lines |-> lines]

Min(a, b) == IF a < b THEN a ELSE b

Max(a, b) == IF a > b THEN a ELSE b

\* Python's s[a:b] for 0 <= a, 0 <= b (a reversed range is empty)
PySlice(s, a, b) == SubSeq(s, a + 1, Min(b, Len(s)))

\* `pattern in line' (or line.startswith(pattern), where a script asks that)
\* for the search strings of the scripts
Contains(l, pattern) ==
    CASE pattern = "interface TemplateBlueprintProps {" ->
           l.kind = "decl" /\ l.sym = "TemplateBlueprintProps"
      [] pattern = "export interface TemplateAreaMediaItem {" ->
           l.kind = "decl" /\ l.sym = "TemplateAreaMediaItem" /\ l.exp >= 1
      [] pattern = "function resolveEmbedUrl(url: string): string | null {" ->
           l.kind = "decl" /\ l.sym = "resolveEmbedUrl"
      [] pattern = "function SlotSectionLabel({ children }: { children: React.ReactNode }) {" ->
           l.kind = "decl" /\ l.sym = "SlotSectionLabel"
      [] pattern = "function LiveNestedSlot({" ->
           l.kind = "decl" /\ l.sym = "LiveNestedSlot"
      [] pattern = "export function JsonTemplatePreview({" ->
           l.kind = "decl" /\ l.sym = "JsonTemplatePreview" /\ l.exp >= 1
      [] pattern = "// --- JSON Blueprint Renderer" ->
           l.kind = "comment" /\ l.sym = "JSON Blueprint Renderer"
      [] pattern = "import { useDroppable } from @dnd-kit/core" ->
           l.kind = "import" /\ l.sym = "useDroppable"
      [] pattern = "startswith: function estimateSessionPages" ->
           l.kind = "decl" /\ l.sym = "estimateSessionPages" /\ l.exp = 0
      [] pattern = "startswith: function tokenizeSeedText" ->
           l.kind = "decl" /\ l.sym = "tokenizeSeedText" /\ l.exp = 0
      [] pattern = "// --- Option primitives" ->
           l.kind = "comment" /\ l.sym = "Option primitives"
      [] pattern = "// --- Tool options strip" ->
           l.kind = "comment" /\ l.sym = "Tool options strip"
      [] pattern = "function ToolButton<" ->
           l.kind = "decl" /\ l.sym = "ToolButton"
      [] pattern = "export function ToolBar()" ->
           l.kind = "decl" /\ l.sym = "ToolBar" /\ l.exp >= 1
      [] pattern = "startswith: import" ->
           l.kind \in {"import", "import_open"}
      [] pattern = "  const classYears = [" ->
           l.kind = "stmt" /\ l.sym = "classYears = ["
      [] pattern = "  // Helper to match display string" ->
           l.kind = "comment" /\ l.sym = "Helper to match display string"
      [] pattern = "// --- View navigation helpers ------" ->
           l.kind = "comment" /\ l.sym = "View navigation helpers" /\ l.exp = 1
      [] pattern = "// --- View navigation helpers" ->
           l.kind = "comment" /\ l.sym = "View navigation helpers"
      [] pattern = "type SectionId = string" ->
           l.kind = "decl" /\ l.sym = "SectionId" /\ l.exp = 0
      [] pattern = "// --- Section router ------" ->
           l.kind = "comment" /\ l.sym = "Section router" /\ l.exp = 1
      [] pattern = "// --- Section router" ->
           l.kind = "comment" /\ l.sym = "Section router"
      [] pattern = "  Brain," ->
           l.kind = "import_cont" /\ l.sym = "lucide-react icon"
      [] pattern = "BLOCK_TO_REMOVE" ->
           l.kind = "block" /\ l.sym = "BLOCK_TO_REMOVE"
      [] pattern = "PT" ->
           l.kind = "block" /\ l.sym = "PT"
      [] pattern = "import { TAXONOMY, CATEGORY_KEYS, layerToCat, type CatKey } from ./atlas-taxonomy" ->
           l.kind = "import" /\ l.sym = "./atlas-taxonomy"
      [] pattern = "  // -- ISCED mini-panel" ->
           l.kind = "comment" /\ l.sym = "ISCED mini-panel"
      [] pattern = "  // -- Render" ->
           l.kind = "comment" /\ l.sym = "Render"
      [] pattern = "anchor={panelAnchor ?? undefined} />" ->
           l.kind = "use_anchor_close"
      [] pattern = "<IscedPanel" ->
           l.kind \in {"use", "use_anchor_close"} /\ l.sym = "IscedPanel"
      [] pattern = "import { ENTITY_TYPES, MEDIA_TYPES, PRODUCT_TYPES, ACTIVITY_TYPES, ISCED_DOMAINS, getLayerName } from @/types/atlas" ->
           l.kind = "import" /\ l.sym = "@/types/atlas"
      [] pattern = "startswith: type SearchParams" ->
           l.kind = "decl" /\ l.sym = "SearchParams" /\ l.exp = 0
      [] pattern = "startswith: function getSingleParam" ->
           l.kind = "decl" /\ l.sym = "getSingleParam" /\ l.exp = 0
      [] pattern = "startswith: export default async function TeacherAtlasPage" ->
           l.kind = "decl" /\ l.sym = "TeacherAtlasPage" /\ l.exp = 1
      [] pattern = "import type { GenerationAction } from @/lib/curriculum/ai-generation-service" ->
           l.kind = "import" /\ l.sym = "@/lib/curriculum/ai-generation-service"
      [] pattern = "/** Shape of each lesson in the generated curriculum */" ->
           l.kind = "comment" /\ l.sym = "Shape of each lesson in the generated curriculum"
      [] pattern = "startswith: const SYSTEM_PROMPT_BASE" ->
           l.kind = "stmt" /\ l.sym = "SYSTEM_PROMPT_BASE"

\* the 1-based positions of the lines of s that contain pattern
Hits(s, pattern) == {i \in 1..Len(s) : Contains(s[i], pattern)}

\* a search that keeps the last match instead of returning at the first
M_FirstIdx(S) == IF S = {} THEN -1 ELSE (CHOOSE i \in S : \A j \in S : j <= i) - 1

\* the 0-based offset of the first position of S, -1 when S is empty
FirstIdx(S) == IF S = {} THEN -1 ELSE (CHOOSE i \in S : \A j \in S : i <= j) - 1

\* the 0-based offset of the last position of S, none when S is empty
LastIdx(S, none) == IF S = {} THEN none ELSE (CHOOSE i \in S : \A j \in S : j <= i) - 1

InsertAt(s, k, e) == SubSeq(s, 1, k) \o <<e>> \o SubSeq(s, k + 1, Len(s))

RemoveAt(s, k) == SubSeq(s, 1, k - 1) \o SubSeq(s, k + 1, Len(s))

SwapAdj(s, k) == [i \in 1..Len(s) |-> IF i = k THEN s[k + 1] ELSE IF i = k + 1 THEN s[k] ELSE s[i]]

\* S and every sequence obtained from one of S by inserting at most n lines of E
RECURSIVE WithExtras(_, _, _)
WithExtras(S, E, n) ==
    IF n = 0 THEN S
    ELSE S \cup WithExtras(UNION {{InsertAt(s, k, e) : k \in 0..Len(s), e \in E} : s \in S},
                            E, n - 1)

\* open(path, "w"); f.write(content)
WriteFile(path, content) ==
    /\ fs' = [fs EXCEPT ![path] = File(content)]
    /\ wrote' = Append(wrote, path)

\* sequences of length at most n over the lines of E
SeqsUpTo(E, n) == UNION {[1..k -> E] : k \in 0..n}

Range(f) == {f[x] : x \in DOMAIN f}

\* ===================================================== split-template-blueprint
\* the lines of template-blueprint.tsx the script looks for
TB_Props == Decl("TemplateBlueprintProps", 0)

TB_Types == Decl("TemplateAreaMediaItem", 1)

TB_Media == Decl("resolveEmbedUrl", 0)

TB_Slot == Decl("SlotSectionLabel", 0)

TB_Live == Decl("LiveNestedSlot", 0)

TB_Main == Decl("JsonTemplatePreview", 1)

\* import { useDroppable } from "@dnd-kit/core"
TB_UseDroppable == L("import", "useDroppable", 0)

\* // --- JSON Blueprint Renderer ... (the comment opens its line)
TB_Renderer == L("comment", "JSON Blueprint Renderer", 0)

TB_Canon == <<TB_Props, TB_Types, TB_Media, TB_Slot, TB_Live, TB_Main>>

\* other lines a template-blueprint.tsx may hold: private declarations that the
\* new files import from each other, a second SlotSectionLabel line, plain text
TB_ExtraLines ==
    { TB_UseDroppable, TB_Renderer, Other, TB_Slot,
      Decl("TaskAreaDropZone", 0), Decl("buildStableTaskKey", 0), Decl("SCALE_CONFIG", 0) }

\* the documents the runs start from: the canonical order of the six marker
\* lines, one marker missing, or two neighbouring markers exchanged; each with
\* up to MaxExtra further lines anywhere
TB_Docs(n) ==
    WithExtras({TB_Canon}, TB_ExtraLines, n)
    \cup WithExtras({RemoveAt(TB_Canon, k) : k \in 1..6} \cup {SwapAdj(TB_Canon, k) : k \in 1..5},
                    TB_ExtraLines, n - 1)

TB_Paths == {"template-blueprint.tsx", "template-blueprint-types.tsx",
             "template-blueprint-media.tsx", "template-blueprint-slot-views.tsx",
             "template-blueprint-live.tsx"}

\* find_line: offset of the first line containing the pattern; -1 stands for
\* the ValueError it raises
TB_find_line(pattern, src) == FirstIdx(Hits(src, pattern))

\* block.replace('\nimport { useDroppable } from "@dnd-kit/core"\n', '\n'):
\* a useDroppable line goes when the newline in front of it is still there,
\* i.e. it is not the first line of the block and the line before it was not
\* itself removed (str.replace takes non-overlapping matches left to right)
RECURSIVE TB_DropUseDroppable(_, _, _)
TB_DropUseDroppable(s, i, nl) ==
    IF i > Len(s) THEN <<>>
    ELSE IF nl /\ Contains(s[i], "import { useDroppable } from @dnd-kit/core")
         THEN TB_DropUseDroppable(s, i + 1, FALSE)
         ELSE <<s[i]>> \o TB_DropUseDroppable(s, i + 1, TRUE)

TB_clean(block) == TB_DropUseDroppable(block, 1, FALSE)

\* the media block kept whole
M_TB_media_content_raw(media_block) == media_block

\* media_content_raw: the media block cut at the first renderer comment
TB_media_content_raw(media_block) ==
    LET r == FirstIdx(Hits(media_block, "// --- JSON Blueprint Renderer"))
    IN  IF r /= -1 THEN PySlice(media_block, 0, r) ELSE media_block

\* the result of replace() dropped: nothing is promoted
M_PromoteAnchored(content, names) == content

\* content.replace("\nfunction X(", "\nexport function X("): a declaration of one
\* of names that opens its line with `function' gains one export
PromoteAnchored(content, names) ==
    [i \in 1..Len(content) |->
        IF content[i].kind = "decl" /\ content[i].sym \in names /\ content[i].exp = 0 /\ i > 1
        THEN [content[i] EXCEPT !.exp = 1] ELSE content[i]]

\* content.replace("const X = {", "export const X = {"): no anchor, so every
\* declaration of one of names gains one export, exported or not
PromoteUnanchored(content, names) ==
    [i \in 1..Len(content) |->
        IF content[i].kind = "decl" /\ content[i].sym \in names
        THEN [content[i] EXCEPT !.exp = @ + 1] ELSE content[i]]

TB_TypesPromoted == {"SCALE_CONFIG", "TemplateBlueprintContext",
                     "TemplateBlueprintContextValue", "useTemplateBlueprintContext"}

TB_MediaPromoted == {"MediaPreview", "TaskAreaDropZone"}

TB_SlotPromoted == {"SlotSectionLabel", "TableSlotView", "NestedSlotView", "ScoringRubricView",
                    "TocListView", "CertificateBodyView", "DiscussionPromptView",
                    "ReflectionJournalView", "SurveyFormView"}

TB_LivePromoted == {"LiveNestedSlot", "BlueprintBodySlot", "MarginBand"}

TB_types_content(l) ==
    PromoteUnanchored(<<Hdr("types")>> \o PySlice(l.all_lines, l.types_start, l.media_start),
                      TB_TypesPromoted)

TB_media_content(l) ==
    PromoteAnchored(<<Hdr("media")>>
                      \o TB_media_content_raw(PySlice(l.all_lines, l.media_start, l.slot_views_start)),
                    TB_MediaPromoted)

TB_slot_content(l) ==
    PromoteAnchored(<<Hdr("slot-views")>> \o PySlice(l.all_lines, l.slot_views_start, l.live_start),
                    TB_SlotPromoted)

TB_live_content(l) ==
    PromoteAnchored(<<Hdr("live")>> \o PySlice(l.all_lines, l.live_start, l.main_start),
                    TB_LivePromoted)

TB_new_main_content(l) ==
    TB_clean(PySlice(l.all_lines, 0, l.props_start))
      \o <<Hdr("main")>>
      \o TB_clean(PySlice(l.all_lines, l.props_start, l.types_start))
      \o PySlice(l.all_lines, l.main_start, Len(l.all_lines))

\* what each synthesized header imports: <<importing file, symbol, file it is
\* imported from>> (imports from files outside the split are left out)
TB_HeaderImports ==
    { <<"template-blueprint-media.tsx", "TemplateAreaMediaItem", "template-blueprint-types.tsx">> }
    \cup { <<"template-blueprint-live.tsx", s, "template-blueprint-types.tsx">> :
            s \in {"useTemplateBlueprintContext", "buildStableTaskKey", "buildTaskAreaKey",
                   "TemplateBlueprintData", "TaskAreaKind"} }
    \cup { <<"template-blueprint-live.tsx", "TaskAreaDropZone", "template-blueprint-media.tsx">> }
    \cup { <<"template-blueprint-live.tsx", s, "template-blueprint-slot-views.tsx">> :
            s \in TB_SlotPromoted }
    \cup { <<"template-blueprint.tsx", s, "template-blueprint-types.tsx">> :
            s \in {"TemplateBlueprintContext", "SCALE_CONFIG", "TemplateAreaMediaItem",
                   "TaskAreaKind", "TemplateBlueprintData"} }
    \cup { <<"template-blueprint.tsx", s, "template-blueprint-live.tsx">> :
            s \in {"BlueprintBodySlot", "MarginBand"} }

TB_Init ==
    /\ script = "split-template-blueprint"
    /\ \E d \in TB_Docs(MaxExtra) :
         fs = [p \in TB_Paths |-> IF p = "template-blueprint.tsx" THEN File(Stamp(d)) ELSE Absent]

\* lines 14-56: read MAIN, the six find_line calls, the slices
TB_Locate ==
    /\ script = "split-template-blueprint" /\ pc = "start" /\ status = "running"
    /\ LET src == fs["template-blueprint.tsx"].lines
           l == [ all_lines        |-> src,
                  types_start      |-> TB_find_line("export interface TemplateAreaMediaItem {", src),
                  media_start      |-> TB_find_line("function resolveEmbedUrl(url: string): string | null {", src),
                  slot_views_start |-> TB_find_line("function SlotSectionLabel({ children }: { children: React.ReactNode }) {", src),
                  live_start       |-> TB_find_line("function LiveNestedSlot({", src),
                  main_start       |-> TB_find_line("export function JsonTemplatePreview({", src),
                  props_start      |-> TB_find_line("interface TemplateBlueprintProps {", src) ]
       IN  /\ loc' = l
           /\ IF -1 \in {l.types_start, l.media_start, l.slot_views_start,
                         l.live_start, l.main_start, l.props_start}
              THEN status' = "err" /\ pc' = "done"
              ELSE status' = status /\ pc' = "write_types"
    /\ UNCHANGED <<script, fs, fs0, fsInit, run, wrote>>

TB_WriteTypes ==
    /\ script = "split-template-blueprint" /\ pc = "write_types" /\ status = "running"
    /\ WriteFile("template-blueprint-types.tsx", TB_types_content(loc))
    /\ pc' = "write_media"
    /\ UNCHANGED <<script, fs0, fsInit, run, loc, status>>

TB_WriteMedia ==
    /\ script = "split-template-blueprint" /\ pc = "write_media" /\ status = "running"
    /\ WriteFile("template-blueprint-media.tsx", TB_media_content(loc))
    /\ pc' = "write_slot"
    /\ UNCHANGED <<script, fs0, fsInit, run, loc, status>>

TB_WriteSlot ==
    /\ script = "split-template-blueprint" /\ pc = "write_slot" /\ status = "running"
    /\ WriteFile("template-blueprint-slot-views.tsx", TB_slot_content(loc))
    /\ pc' = "write_live"
    /\ UNCHANGED <<script, fs0, fsInit, run, loc, status>>

TB_WriteLive ==
    /\ script = "split-template-blueprint" /\ pc = "write_live" /\ status = "running"
    /\ WriteFile("template-blueprint-live.tsx", TB_live_content(loc))
    /\ pc' = "write_main"
    /\ UNCHANGED <<script, fs0, fsInit, run, loc, status>>

TB_WriteMain ==
    /\ script = "split-template-blueprint" /\ pc = "write_main" /\ status = "running"
    /\ WriteFile("template-blueprint.tsx", TB_new_main_content(loc))
    /\ pc' = "done" /\ status' = "ok"
    /\ UNCHANGED <<script, fs0, fsInit, run, loc>>


\* ===================================================== split-canvas-projection
\* lines a canvas-projection.ts may hold: the boundary function, a function the
\* projector header imports (private or exported), an exported function that
\* lives after the boundary, blank lines, plain text
CV_Lines ==
    { Decl("estimateSessionPages", 0), Decl("planLessonBodyLayout", 0),
      Decl("planLessonBodyLayout", 1), Decl("projectLessonPages", 1), Blank, Other }

CV_Docs == SeqsUpTo(CV_Lines, MaxLen)

CV_Paths == {"canvas-projection.ts", "canvas-lesson-projector.ts"}

\* the loop of lines 10-14: first matching line, None (-1) when there is none
CV_boundary_line(lines) == FirstIdx(Hits(lines, "startswith: function estimateSessionPages"))

\* an `if' in place of the `while': at most one blank line is popped
M_StripTrailingBlank(s) ==
    IF Len(s) > 0 /\ s[Len(s)].kind = "blank" THEN SubSeq(s, 1, Len(s) - 1) ELSE s

\* while projection_lines and projection_lines[-1].strip() == "": pop()
RECURSIVE StripTrailingBlank(_)
StripTrailingBlank(s) ==
    IF Len(s) > 0 /\ s[Len(s)].kind = "blank"
    THEN StripTrailingBlank(SubSeq(s, 1, Len(s) - 1)) ELSE s

\* the slice taken one line too long, so that it keeps the boundary line
M_CV_projection_lines(lines, b) == Append(StripTrailingBlank(PySlice(lines, 0, b + 1)), Blank)

\* lines 24-28: the lines before the boundary, trailing blank lines popped,
\* one '\n' appended (the comment announces a re-export; none is added)
CV_projection_lines(lines, b) == Append(StripTrailingBlank(PySlice(lines, 0, b)), Blank)

\* lines 31-46: the fixed header, then every line from the boundary on
CV_projector_content(lines, b) == <<Hdr("projector")>> \o PySlice(lines, b, Len(lines))

CV_HeaderImports ==
    { <<"canvas-lesson-projector.ts", s, "canvas-projection.ts">> :
        s \in {"planLessonBodyLayout", "estimateExpandedTaskCount", "resolveEnabledBlocks",
               "resolveTemplateFieldState", "RawCurriculumSessionRow",
               "RawScheduleGeneratedEntry", "LessonCanvasPageProjection"} }

CV_Init ==
    /\ script = "split-canvas-projection"
    /\ \E d \in CV_Docs :
         fs = [p \in CV_Paths |-> IF p = "canvas-projection.ts" THEN File(Stamp(d)) ELSE Absent]

CV_Locate ==
    /\ script = "split-canvas-projection" /\ pc = "start" /\ status = "running"
    /\ LET lines == fs["canvas-projection.ts"].lines
           b == CV_boundary_line(lines)
       IN  /\ loc' = [all_lines |-> lines, boundary_line |-> b]
           /\ IF b = -1
              THEN status' = "err" /\ pc' = "done"
              ELSE status' = status /\ pc' = "write_projection"
    /\ UNCHANGED <<script, fs, fs0, fsInit, run, wrote>>

CV_WriteProjection ==
    /\ script = "split-canvas-projection" /\ pc = "write_projection" /\ status = "running"
    /\ WriteFile("canvas-projection.ts", CV_projection_lines(loc.all_lines, loc.boundary_line))
    /\ pc' = "write_projector"
    /\ UNCHANGED <<script, fs0, fsInit, run, loc, status>>

\* the second write opening path again instead of projector_path
M_CV_WriteProjector ==
    /\ script = "split-canvas-projection" /\ pc = "write_projector" /\ status = "running"
    /\ WriteFile("canvas-projection.ts", CV_projector_content(loc.all_lines, loc.boundary_line))
    /\ pc' = "done" /\ status' = "ok"
    /\ UNCHANGED <<script, fs0, fsInit, run, loc>>

CV_WriteProjector ==
    /\ script = "split-canvas-projection" /\ pc = "write_projector" /\ status = "running"
    /\ WriteFile("canvas-lesson-projector.ts", CV_projector_content(loc.all_lines, loc.boundary_line))
    /\ pc' = "done" /\ status' = "ok"
    /\ UNCHANGED <<script, fs0, fsInit, run, loc>>

\* ===================================================== update-ai-service
\* re.search(r'\nfunction tokenizeSeedText.*', content, re.DOTALL): the first
\* line that opens with the function and has a line in front of it
AI_match_start(lines) == FirstIdx(Hits(lines, "startswith: function tokenizeSeedText") \ {1})

\* the names the fixed re-export block forwards
AI_ReExported == {"buildLocalGeneratedCurriculum", "buildGenerationContext",
                  "formatGenerationPrompt", "parseGenerationResponse", "callGenerationAPI"}

\* an exported function of the list, one that is not on it, the boundary, text
AI_Lines == { Decl("tokenizeSeedText", 0), Decl("buildGenerationContext", 1),
              Decl("summarizeSeedText", 1), Other }

AI_Docs == SeqsUpTo(AI_Lines, MaxLen)

AI_Paths == {"ai-generation-service.ts"}

\* the cut one line late: the boundary line kept
M_AI_new_content(lines, m) == Append(PySlice(lines, 0, m + 1), Hdr("re-exports"))

\* content[:match.start()] + re_exports
AI_new_content(lines, m) == Append(PySlice(lines, 0, m), Hdr("re-exports"))

AI_Init ==
    /\ script = "update-ai-service"
    /\ \E d \in AI_Docs : fs = [p \in AI_Paths |-> File(Stamp(d))]

AI_Locate ==
    /\ script = "update-ai-service" /\ pc = "start" /\ status = "running"
    /\ LET lines == fs["ai-generation-service.ts"].lines
           m == AI_match_start(lines)
       IN  /\ loc' = [all_lines |-> lines, match_start |-> m]
           /\ IF m = -1
              THEN status' = "err" /\ pc' = "done"
              ELSE status' = status /\ pc' = "write_service"
    /\ UNCHANGED <<script, fs, fs0, fsInit, run, wrote>>

AI_Write ==
    /\ script = "update-ai-service" /\ pc = "write_service" /\ status = "running"
    /\ WriteFile("ai-generation-service.ts", AI_new_content(loc.all_lines, loc.match_start))
    /\ pc' = "done" /\ status' = "ok"
    /\ UNCHANGED <<script, fs0, fsInit, run, loc>>


\* ===================================================== split-toolbar
TL_OptPrimitives == L("comment", "Option primitives", 0)

TL_OptsStrip == L("comment", "Tool options strip", 0)

TL_ToolButton == Decl("ToolButton", 0)

TL_ToolBar == Decl("ToolBar", 1)

\* a one-line import statement
Import == L("import", "", 0)

TL_Canon == <<TL_OptPrimitives, TL_OptsStrip, TL_ToolButton, TL_ToolBar>>

\* other lines a ToolBar.tsx may hold: an import, text, the declaration of
\* ToolOptionsStrip (private, or exported already), a second marker line
TL_ExtraLines ==
    { Import, Other, Decl("ToolOptionsStrip", 0), Decl("ToolOptionsStrip", 1), TL_OptPrimitives }

SwapAt(s, a, b) == [i \in 1..Len(s) |-> IF i = a THEN s[b] ELSE IF i = b THEN s[a] ELSE s[i]]

\* the canonical order of the four marker lines, one missing, or two exchanged
TL_Docs(n) ==
    WithExtras({TL_Canon}, TL_ExtraLines, n)
    \cup WithExtras({RemoveAt(TL_Canon, k) : k \in 1..4}
                      \cup {SwapAt(TL_Canon, a, b) : a, b \in 1..4},
                    TL_ExtraLines, n - 1)

TL_Paths == {"ToolBar.tsx", "toolbar-options.tsx"}

\* find_line returning 0 instead of -1 when no line matches
M_TL_find_line(lines, text) == Max(0, FirstIdx(Hits(lines, text)))

\* find_line(lines, text): the offset of the first line with `text in line', -1 when none
TL_find_line(lines, text) == FirstIdx(Hits(lines, text))

\* lines 61-64: the offset of the last line with line.strip().startswith("import")
\* in kept_start, 0 when there is none
TL_last_import_idx(kept_start) == LastIdx(Hits(kept_start, "startswith: import"), 0)

\* list.insert(k, x): k beyond the end appends
PyInsert(s, k, x) == InsertAt(s, Min(k, Len(s)), x)

TL_import_line == L("import", "ToolOptionsStrip", 0)

\* lines 38-49
TL_options_content(l) ==
    PromoteUnanchored(<<Hdr("toolbar-options")>>
                        \o PySlice(l.all_lines, l.opt_primitives_start, l.tool_button_start),
                      {"ToolOptionsStrip"})

\* lines 55-68
TL_new_toolbar_content(l) ==
    LET kept_start == PySlice(l.all_lines, 0, l.opt_primitives_start)
        kept_end == PySlice(l.all_lines, l.tool_button_start, Len(l.all_lines))
    IN  PyInsert(kept_start, TL_last_import_idx(kept_start) + 1, TL_import_line) \o kept_end

TL_Init ==
    /\ script = "split-toolbar"
    /\ \E d \in TL_Docs(MaxExtra) :
         fs = [p \in TL_Paths |-> IF p = "ToolBar.tsx" THEN File(Stamp(d)) ELSE Absent]

TL_Locate ==
    /\ script = "split-toolbar" /\ pc = "start" /\ status = "running"
    /\ LET lines == fs["ToolBar.tsx"].lines
           l == [ all_lines                |-> lines,
                  opt_primitives_start     |-> TL_find_line(lines, "// --- Option primitives"),
                  opts_strip_comment_start |-> TL_find_line(lines, "// --- Tool options strip"),
                  tool_button_start        |-> TL_find_line(lines, "function ToolButton<"),
                  toolbar_start            |-> TL_find_line(lines, "export function ToolBar()") ]
       IN  /\ loc' = l
           /\ IF -1 \in {l.opt_primitives_start, l.opts_strip_comment_start,
                         l.tool_button_start, l.toolbar_start}
              THEN status' = "err" /\ pc' = "done"
              ELSE status' = status /\ pc' = "write_toolbar"
    /\ UNCHANGED <<script, fs, fs0, fsInit, run, wrote>>

TL_WriteToolbar ==
    /\ script = "split-toolbar" /\ pc = "write_toolbar" /\ status = "running"
    /\ WriteFile("ToolBar.tsx", TL_new_toolbar_content(loc))
    /\ pc' = "write_options"
    /\ UNCHANGED <<script, fs0, fsInit, run, loc, status>>

TL_WriteOptions ==
    /\ script = "split-toolbar" /\ pc = "write_options" /\ status = "running"
    /\ WriteFile("toolbar-options.tsx", TL_options_content(loc))
    /\ pc' = "done" /\ status' = "ok"
    /\ UNCHANGED <<script, fs0, fsInit, run, loc>>

\* ===================================================== update-classification-section
\* '  const classYears = [\n'
CL_ClassYears == L("stmt", "classYears = [", 0)

\* '  // Helper to match display string'
CL_Helper == L("comment", "Helper to match display string", 0)

CL_Lines == { CL_ClassYears, CL_Helper, Other }

CL_Docs == SeqsUpTo(CL_Lines, MaxLen)

CL_Paths == {"classification-section.tsx"}

\* "  const classYears = CLASS_YEARS\n  const curricularFrameworks = CURRICULAR_FRAMEWORKS\n\n  "
CL_replacement == << L("stmt", "classYears = CLASS_YEARS", 0),
                     L("stmt", "curricularFrameworks = CURRICULAR_FRAMEWORKS", 0), Blank >>

\* src[:start_idx] + replacement + src[end_idx:], the offsets taken at line starts
CL_new_src(lines, start_idx, end_idx) ==
    PySlice(lines, 0, start_idx) \o CL_replacement \o PySlice(lines, end_idx, Len(lines))

CL_Init ==
    /\ script = "update-classification-section"
    /\ \E d \in CL_Docs : fs = [p \in CL_Paths |-> File(Stamp(d))]

CL_Locate ==
    /\ script = "update-classification-section" /\ pc = "start" /\ status = "running"
    /\ LET lines == fs["classification-section.tsx"].lines
           l == [ all_lines |-> lines,
                  start_idx |-> FirstIdx(Hits(lines, "  const classYears = [")),
                  end_idx   |-> FirstIdx(Hits(lines, "  // Helper to match display string")) ]
       IN  /\ loc' = l
           /\ IF l.start_idx = -1 \/ l.end_idx = -1
              THEN status' = "err" /\ pc' = "done"
              ELSE status' = status /\ pc' = "write_classification"
    /\ UNCHANGED <<script, fs, fs0, fsInit, run, wrote>>

CL_Write ==
    /\ script = "update-classification-section" /\ pc = "write_classification" /\ status = "running"
    /\ WriteFile("classification-section.tsx", CL_new_src(loc.all_lines, loc.start_idx, loc.end_idx))
    /\ pc' = "done" /\ status' = "ok"
    /\ UNCHANGED <<script, fs0, fsInit, run, loc>>


\* ===================================================== update-coursebuilder-page
\* a multi-line import statement as a script inserts it: `import {', the names,
\* `} from "<module>"'
ImportBlock(module) ==
    << L("import_open", module, 0), L("import_cont", module, 0), L("import_close", module, 0) >>

\* "// --- View navigation helpers ------" with the full rule of dashes / a shorter one
CB_ViewFull == L("comment", "View navigation helpers", 1)

CB_ViewShort == L("comment", "View navigation helpers", 0)

\* "// --- Section router ------" with the full rule of dashes / a shorter one
CB_RouterFull == L("comment", "Section router", 1)

CB_RouterShort == L("comment", "Section router", 0)

\* "type SectionId = string"
CB_SectionId == Decl("SectionId", 0)

\* "  Brain," : a line of the lucide-react import that the script deletes
CB_Icon == L("import_cont", "lucide-react icon", 0)

CB_Canon == <<Import, Blank, CB_ViewFull, CB_SectionId, CB_RouterFull>>

CB_ExtraLines == { Import, Blank, Other, CB_Icon }

\* the canonical page, one line missing, or a marker with the shorter rule
CB_Docs(n) ==
    WithExtras({CB_Canon}, CB_ExtraLines, n)
    \cup WithExtras({RemoveAt(CB_Canon, k) : k \in 1..5}
                      \cup { [CB_Canon EXCEPT ![3] = CB_ViewShort],
                             [CB_Canon EXCEPT ![5] = CB_RouterShort] },
                    CB_ExtraLines, n - 1)

CB_Paths == {"page.tsx"}

\* lines 30-33 (and update-schedule-section 20-23): the offset of the last
\* line with line.startswith("import "), -1 when there is none
last_import_line(lines) == LastIdx(Hits(lines, "startswith: import"), -1)

\* lines 35-36: lines.insert(last_import_line + 1, REGISTRY_IMPORT); "\n".join(lines).
\* REGISTRY_IMPORT ends with a newline of its own, so the join leaves an empty
\* line between it and the line that follows
CB_insert_import(lines) ==
    LET k == last_import_line(lines) + 1
    IN  PySlice(lines, 0, k) \o ImportBlock("./page-section-registry")
          \o (IF k < Len(lines) THEN <<Blank>> ELSE <<>>) \o PySlice(lines, k, Len(lines))

\* src.find(marker) for the markers of the script, each of which opens with
\* '\n'.  The value is the number of lines in front of the matched '\n'
\* (src[:idx] is exactly these lines), -1 when there is no match.
\* n: the empty lines the marker asks for in front of its line.
CB_find(src, n, pattern) ==
    LET cand == {i \in 1..(Len(src) - n - 1) :
                    /\ Contains(src[i + n + 1], pattern)
                    /\ \A d \in 1..n : src[i + d].kind = "blank"}
    IN  IF cand = {} THEN -1 ELSE CHOOSE i \in cand : \A j \in cand : i <= j

\* lines 45-61: the primary markers, then the alternates
CB_resolve(src) ==
    LET start0 == CB_find(src, 1, "// --- View navigation helpers ------")
        end0 == CB_find(src, 0, "// --- Section router ------")
        start2 == CB_find(src, 2, "// --- View navigation helpers")
        start3 == IF start2 = -1 THEN CB_find(src, 0, "type SectionId = string") ELSE start2
        end1 == IF end0 = -1 THEN CB_find(src, 0, "// --- Section router") ELSE end0
    IN  IF start0 = -1 \/ end0 = -1
        THEN [start_idx |-> start3, end_idx |-> end1, primary |-> FALSE]
        ELSE [start_idx |-> start0, end_idx |-> end0, primary |-> TRUE]

\* lines 63-67: src[:start_idx] + "\n" + src[end_idx:] when both are resolved
CB_remove_block(src, r) ==
    IF r.start_idx /= -1 /\ r.end_idx /= -1
    THEN PySlice(src, 0, r.start_idx) \o <<Blank>> \o PySlice(src, r.end_idx, Len(src))
    ELSE src

\* lines 77-78: src.replace(icon_line + "\n", "", 1); the last line of src has
\* no newline after it
CB_remove_icons(src) ==
    LET i == FirstIdx(Hits(src, "  Brain,") \ {Len(src)})
    IN  IF i = -1 THEN src ELSE RemoveAt(src, i + 1)

CB_Init ==
    /\ script = "update-coursebuilder-page"
    /\ \E d \in CB_Docs(MaxExtra) : fs = [p \in CB_Paths |-> File(Stamp(d))]

\* lines 9-78: everything up to the write
CB_Transform ==
    /\ script = "update-coursebuilder-page" /\ pc = "start" /\ status = "running"
    /\ LET src == CB_insert_import(fs["page.tsx"].lines)
           r == CB_resolve(src)
       IN  loc' = [ all_lines |-> fs["page.tsx"].lines,
                    resolved  |-> r,
                    missing   |-> r.start_idx = -1 \/ r.end_idx = -1,
                    src       |-> CB_remove_icons(CB_remove_block(src, r)) ]
    /\ pc' = "write_page"
    /\ UNCHANGED <<script, fs, fs0, fsInit, run, status, wrote>>

CB_Write ==
    /\ script = "update-coursebuilder-page" /\ pc = "write_page" /\ status = "running"
    /\ WriteFile("page.tsx", loc.src)
    /\ pc' = "done" /\ status' = "ok"
    /\ UNCHANGED <<script, fs0, fsInit, run, loc>>

\* ===================================================== update-schedule-section
\* the text of BLOCK_TO_REMOVE / of PT, taken as one unit
SC_Block == L("block", "BLOCK_TO_REMOVE", 0)

SC_PT == L("block", "PT", 0)

SC_Lines == { Import, SC_Block, SC_PT, Other }

SC_Docs == SeqsUpTo(SC_Lines, MaxLen)

SC_Paths == {"schedule-section.tsx"}

\* lines 25-26: lines.insert(last_import_idx + 1, NEW_IMPORT); "".join(lines)
SC_insert_import(lines) ==
    LET k == last_import_line(lines) + 1
    IN  PySlice(lines, 0, k) \o ImportBlock("./schedule-section-utils") \o PySlice(lines, k, Len(lines))

\* src.replace(SC_Block, "\n", 1) / src.replace(PT, "", 1)
ReplaceFirst(src, old, by) ==
    LET i == FirstIdx(Hits(src, old))
    IN  IF i = -1 THEN src ELSE PySlice(src, 0, i) \o by \o PySlice(src, i + 1, Len(src))

SC_Init ==
    /\ script = "update-schedule-section"
    /\ \E d \in SC_Docs : fs = [p \in SC_Paths |-> File(Stamp(d))]

\* lines 10-227: everything up to the write; a PT that is not found is a warning
SC_Transform ==
    /\ script = "update-schedule-section" /\ pc = "start" /\ status = "running"
    /\ LET src1 == ReplaceFirst(SC_insert_import(fs["schedule-section.tsx"].lines), "BLOCK_TO_REMOVE", <<Blank>>)
           found == Hits(src1, "PT") /= {}
       IN  loc' = [ all_lines |-> fs["schedule-section.tsx"].lines,
                    missing   |-> ~found,
                    src       |-> IF found THEN ReplaceFirst(src1, "PT", <<>>) ELSE src1 ]
    /\ pc' = "write_schedule"
    /\ UNCHANGED <<script, fs, fs0, fsInit, run, status, wrote>>

SC_Write ==
    /\ script = "update-schedule-section" /\ pc = "write_schedule" /\ status = "running"
    /\ WriteFile("schedule-section.tsx", loc.src)
    /\ pc' = "done" /\ status' = "ok"
    /\ UNCHANGED <<script, fs0, fsInit, run, loc>>

\* ===================================================== all scripts
\* the file the script is about to write at a control point
WriteTarget ==
    [ write_types      |-> "template-blueprint-types.tsx",
      write_media      |-> "template-blueprint-media.tsx",
      write_slot       |-> "template-blueprint-slot-views.tsx",
      write_live       |-> "template-blueprint-live.tsx",
      write_main       |-> "template-blueprint.tsx",
      write_projection |-> "canvas-projection.ts",
      write_projector  |-> "canvas-lesson-projector.ts",
      write_service    |-> "ai-generation-service.ts",
      write_toolbar    |-> "ToolBar.tsx",
      write_options    |-> "toolbar-options.tsx",
      write_classification |-> "classification-section.tsx",
      write_page       |-> "page.tsx",
      write_schedule   |-> "schedule-section.tsx",
      write_filter_bar |-> "atlas-filter-bar.tsx",
      write_atlas_page |-> "atlas/page.tsx",
      write_route      |-> "route.ts" ]


\* the operating system refuses a write (permissions, disk full): open() or
\* write() raises OSError, which no script catches.  Either open() failed and
\* the file is as it was, or open(path, "w") had already truncated it
WriteFails ==
    /\ status = "running"
    /\ pc \in DOMAIN WriteTarget
    /\ \/ UNCHANGED <<fs, wrote>>
       \/ /\ fs' = [fs EXCEPT ![WriteTarget[pc]] = File(<<>>)]
          /\ wrote' = Append(wrote, WriteTarget[pc])
    /\ status' = "err" /\ pc' = "done"
    /\ UNCHANGED <<script, fs0, fsInit, run, loc>>

\* the script is started again on the files its first, successful run left
Rerun ==
    /\ pc = "done" /\ status = "ok" /\ run = 1
    /\ fs' = [p \in DOMAIN fs |-> [fs[p] EXCEPT !.lines = Stamp(@)]]
    /\ fs0' = fs'
    /\ run' = 2
    /\ pc' = "start"
    /\ status' = "running"
    /\ loc' = [all_lines |-> <<>>]
    /\ wrote' = <<>>
    /\ UNCHANGED <<script, fsInit>>

Init ==
    /\ \/ TB_Init
       \/ CV_Init
       \/ AI_Init
       \/ TL_Init
       \/ CL_Init
       \/ CB_Init
       \/ SC_Init
    /\ fs0 = fs
    /\ fsInit = fs
    /\ run = 1
    /\ pc = "start"
    /\ loc = [all_lines |-> <<>>]
    /\ status = "running"
    /\ wrote = <<>>

Next ==
    \/ TB_Locate
    \/ TB_WriteTypes
    \/ TB_WriteMedia
    \/ TB_WriteSlot
    \/ TB_WriteLive
    \/ TB_WriteMain
    \/ CV_Locate
    \/ CV_WriteProjection
    \/ CV_WriteProjector
    \/ AI_Locate
    \/ AI_Write
    \/ TL_Locate
    \/ TL_WriteToolbar
    \/ TL_WriteOptions
    \/ CL_Locate
    \/ CL_Write
    \/ CB_Transform
    \/ CB_Write
    \/ SC_Transform
    \/ SC_Write
    \/ WriteFails
    \/ Rerun

Spec == Init /\ [][Next]_vars


\* ===================================================== update-atlas-filter-bar
\* 'import { TAXONOMY, CATEGORY_KEYS, layerToCat, type CatKey } from "./atlas-taxonomy"\n'
FB_Anchor == L("import", "./atlas-taxonomy", 0)

\* 'import { AtlasIscedPanel } from "./atlas-isced-panel"\n'
FB_new_import == L("import", "./atlas-isced-panel", 0)

\* "  // -- ISCED mini-panel"
FB_StartMarker == L("comment", "ISCED mini-panel", 0)

\* the local function IscedPanel
FB_Definition == Decl("IscedPanel", 0)

\* "  // -- Render"
FB_EndMarker == L("comment", "Render", 0)

\* a JSX element <tag ... />, written here as one line; kind tells whether it
\* ends with the text "anchor={panelAnchor ?? undefined}\n              />",
\* exp counts the iscedSearch / setIscedSearch pairs among its props
Use(tag, anchor_close) ==
    L(IF anchor_close THEN "use_anchor_close" ELSE "use", tag, 0)

FB_Canon == << FB_Anchor, FB_StartMarker, FB_Definition, FB_EndMarker, Use("IscedPanel", TRUE) >>

FB_ExtraLines ==
    { Use("IscedPanel", TRUE), Use("IscedPanel", FALSE), Use("LayerPanel", TRUE),
      FB_StartMarker, FB_EndMarker }

\* the canonical file, the files with extra lines, and those that lack a line
FB_Docs(n) ==
    WithExtras({FB_Canon}, FB_ExtraLines, n)
      \cup WithExtras({RemoveAt(FB_Canon, k) : k \in 1..Len(FB_Canon)}, FB_ExtraLines, n - 1)

FB_Path == "atlas-filter-bar.tsx"

\* content.replace(old_anchor, old_anchor + new_import, 1)
InsertAfterFirst(lines, pattern, new) ==
    LET at == FirstIdx(Hits(lines, pattern))
    IN  PySlice(lines, 0, at + 1) \o new \o PySlice(lines, at + 1, Len(lines))

\* a search whose result is the offset just behind the end marker's line
M_FB_end_idx(lines, start_idx) ==
    LET at == FirstIdx({i \in Hits(lines, "  // -- Render") : i - 1 >= start_idx})
    IN  IF at = -1 THEN -1 ELSE at + 1

\* content.find(end_marker, start_idx): the first match at or after start_idx
FB_end_idx(lines, start_idx) ==
    FirstIdx({i \in Hits(lines, "  // -- Render") : i - 1 >= start_idx})

\* content.replace(old_closing, new_closing): every element that ends with
\* old_closing gets the two props, and no longer ends with old_closing
FB_replace_closing(lines) ==
    [i \in 1..Len(lines) |->
        IF Contains(lines[i], "anchor={panelAnchor ?? undefined} />")
        THEN [lines[i] EXCEPT !.kind = "use", !.exp = @ + 1]
        ELSE lines[i]]

\* content.replace("<IscedPanel", "<AtlasIscedPanel")
FB_rename(lines) ==
    [i \in 1..Len(lines) |->
        IF Contains(lines[i], "<IscedPanel")
        THEN [lines[i] EXCEPT !.sym = "AtlasIscedPanel"]
        ELSE lines[i]]

FB_Init ==
    /\ script = "update-atlas-filter-bar"
    /\ \E d \in FB_Docs(MaxExtra) : fs = [p \in {FB_Path} |-> File(Stamp(d))]

\* lines 5-14: read, the anchor test, the import added to the content in memory
FB_AddImport ==
    /\ script = "update-atlas-filter-bar" /\ pc = "start" /\ status = "running"
    /\ LET lines == fs[FB_Path].lines
       IN  IF Hits(lines, "import { TAXONOMY, CATEGORY_KEYS, layerToCat, type CatKey } from ./atlas-taxonomy") = {}
           THEN /\ status' = "err" /\ pc' = "done"
                /\ loc' = [all_lines |-> lines, content |-> lines]
           ELSE /\ status' = status /\ pc' = "cut"
                /\ loc' = [all_lines |-> lines,
                           content |-> InsertAfterFirst(lines,
                               "import { TAXONOMY, CATEGORY_KEYS, layerToCat, type CatKey } from ./atlas-taxonomy",
                               <<FB_new_import>>)]
    /\ UNCHANGED <<script, fs, fs0, fsInit, run, wrote>>

\* lines 17-36: the markers, the cut, the two replacements
FB_Cut ==
    /\ script = "update-atlas-filter-bar" /\ pc = "cut" /\ status = "running"
    /\ LET start_idx == FirstIdx(Hits(loc.content, "  // -- ISCED mini-panel"))
           end_idx   == FB_end_idx(loc.content, start_idx)
       IN  IF start_idx = -1 \/ end_idx = -1
           THEN status' = "err" /\ pc' = "done" /\ loc' = loc
           ELSE /\ status' = status /\ pc' = "write_filter_bar"
                /\ loc' = [loc EXCEPT !.content =
                             FB_rename(FB_replace_closing(
                                 PySlice(loc.content, 0, start_idx)
                                   \o PySlice(loc.content, end_idx, Len(loc.content))))]
    /\ UNCHANGED <<script, fs, fs0, fsInit, run, wrote>>

\* lines 38-39
FB_Write ==
    /\ script = "update-atlas-filter-bar" /\ pc = "write_filter_bar" /\ status = "running"
    /\ WriteFile(FB_Path, loc.content)
    /\ pc' = "done" /\ status' = "ok"
    /\ UNCHANGED <<script, fs0, fsInit, run, loc>>

\* ===================================================== update-atlas-page
\* 'import { ENTITY_TYPES, MEDIA_TYPES, ... , getLayerName } from "@/types/atlas"\n'
AP_Anchor == L("import", "@/types/atlas", 0)

\* new_imports: two multi-line imports from "./atlas-page-utils"
AP_new_imports ==
    << L("import_open", "./atlas-page-utils", 0), L("import_cont", "./atlas-page-utils", 0),
       L("import_close", "./atlas-page-utils", 0),
       L("import_open", "type ./atlas-page-utils", 0), L("import_cont", "type ./atlas-page-utils", 0),
       L("import_close", "type ./atlas-page-utils", 0) >>

\* a line that starts with 'type SearchParams'
AP_TypeSearchParams == Decl("SearchParams", 0)

\* a line that starts with 'function getSingleParam'
AP_GetSingleParam == Decl("getSingleParam", 0)

\* a line that starts with 'export default async function TeacherAtlasPage'
AP_TeacherAtlasPage == Decl("TeacherAtlasPage", 1)

AP_Canon == << AP_Anchor, Other, AP_TypeSearchParams, AP_GetSingleParam, AP_TeacherAtlasPage >>

AP_ExtraLines == { Other, AP_TypeSearchParams, AP_GetSingleParam, AP_TeacherAtlasPage }

AP_Docs(n) ==
    WithExtras({AP_Canon}, AP_ExtraLines, n)
      \cup WithExtras({RemoveAt(AP_Canon, k) : k \in 1..Len(AP_Canon)}, AP_ExtraLines, n - 1)

AP_Path == "atlas/page.tsx"

\* a search that, when no line starts with last, lets the match run to the
\* end of the content
M_BlockMatch(lines, first, last, gap) ==
    LET start == FirstIdx({i \in Hits(lines, first) : i >= 2})
        end   == FirstIdx({i \in Hits(lines, last) : i - 1 >= start + gap})
    IN  IF start = -1 THEN <<-1, -1>>
        ELSE IF end = -1 THEN <<start, Len(lines)>> ELSE <<start, end>>

\* re.search(r'\n<first>.*?(?=\n<last>)', content, re.DOTALL): the match
\* starts at the first line after line 1 that starts with first and ends in
\* front of the next line, at least gap lines further, that starts with
\* last; <<-1, -1>> when there is no match
BlockMatch(lines, first, last, gap) ==
    LET start == FirstIdx({i \in Hits(lines, first) : i >= 2})
        end   == FirstIdx({i \in Hits(lines, last) : i - 1 >= start + gap})
    IN  IF start = -1 \/ end = -1 THEN <<-1, -1>> ELSE <<start, end>>

\* content[:match.start()] + content[match.end():]
CutMatch(lines, m) == PySlice(lines, 0, m[1]) \o PySlice(lines, m[2], Len(lines))

AP_Init ==
    /\ script = "update-atlas-page"
    /\ \E d \in AP_Docs(MaxExtra) : fs = [p \in {AP_Path} |-> File(Stamp(d))]

\* lines 5-33
AP_AddImports ==
    /\ script = "update-atlas-page" /\ pc = "start" /\ status = "running"
    /\ LET lines == fs[AP_Path].lines
       IN  IF Hits(lines, "import { ENTITY_TYPES, MEDIA_TYPES, PRODUCT_TYPES, ACTIVITY_TYPES, ISCED_DOMAINS, getLayerName } from @/types/atlas") = {}
           THEN /\ status' = "err" /\ pc' = "done"
                /\ loc' = [all_lines |-> lines, content |-> lines]
           ELSE /\ status' = status /\ pc' = "cut_types"
                /\ loc' = [all_lines |-> lines,
                           content |-> InsertAfterFirst(lines,
                               "import { ENTITY_TYPES, MEDIA_TYPES, PRODUCT_TYPES, ACTIVITY_TYPES, ISCED_DOMAINS, getLayerName } from @/types/atlas",
                               AP_new_imports)]
    /\ UNCHANGED <<script, fs, fs0, fsInit, run, wrote>>

\* lines 38-44
AP_CutTypes ==
    /\ script = "update-atlas-page" /\ pc = "cut_types" /\ status = "running"
    /\ LET match == BlockMatch(loc.content, "startswith: type SearchParams",
                               "startswith: function getSingleParam", 1)
       IN  IF match = <<-1, -1>>
           THEN status' = "err" /\ pc' = "done" /\ loc' = loc
           ELSE /\ status' = status /\ pc' = "cut_funcs"
                /\ loc' = [loc EXCEPT !.content = CutMatch(loc.content, match)]
    /\ UNCHANGED <<script, fs, fs0, fsInit, run, wrote>>

\* lines 48-54
AP_CutFuncs ==
    /\ script = "update-atlas-page" /\ pc = "cut_funcs" /\ status = "running"
    /\ LET match == BlockMatch(loc.content, "startswith: function getSingleParam",
                               "startswith: export default async function TeacherAtlasPage", 1)
       IN  IF match = <<-1, -1>>
           THEN status' = "err" /\ pc' = "done" /\ loc' = loc
           ELSE /\ status' = status /\ pc' = "write_atlas_page"
                /\ loc' = [loc EXCEPT !.content = CutMatch(loc.content, match)]
    /\ UNCHANGED <<script, fs, fs0, fsInit, run, wrote>>

\* lines 56-57
AP_Write ==
    /\ script = "update-atlas-page" /\ pc = "write_atlas_page" /\ status = "running"
    /\ WriteFile(AP_Path, loc.content)
    /\ pc' = "done" /\ status' = "ok"
    /\ UNCHANGED <<script, fs0, fsInit, run, loc>>

\* ===================================================== update-route
\* 'import type { GenerationAction } from "@/lib/curriculum/ai-generation-service"\n'
RT_Anchor == L("import", "@/lib/curriculum/ai-generation-service", 0)

\* new_imports: a multi-line import and an import type from "./generation-route-utils"
RT_new_imports ==
    << L("import_open", "./generation-route-utils", 0), L("import_cont", "./generation-route-utils", 0),
       L("import_close", "./generation-route-utils", 0),
       L("import", "type ./generation-route-utils", 0) >>

\* the line '/** Shape of each lesson in the generated curriculum */'
RT_Shape == L("comment", "Shape of each lesson in the generated curriculum", 0)

\* a line that starts with 'const SYSTEM_PROMPT_BASE'
RT_SystemPrompt == L("stmt", "SYSTEM_PROMPT_BASE", 0)

RT_Canon == << RT_Anchor, Other, RT_Shape, Decl("GeneratedLesson", 0), RT_SystemPrompt >>

RT_ExtraLines == { Other, RT_Shape, RT_SystemPrompt }

RT_Docs(n) ==
    WithExtras({RT_Canon}, RT_ExtraLines, n)
      \cup WithExtras({RemoveAt(RT_Canon, k) : k \in 1..Len(RT_Canon)}, RT_ExtraLines, n - 1)

RT_Path == "route.ts"

RT_Init ==
    /\ script = "update-route"
    /\ \E d \in RT_Docs(MaxExtra) : fs = [p \in {RT_Path} |-> File(Stamp(d))]

\* lines 5-25
RT_AddImports ==
    /\ script = "update-route" /\ pc = "start" /\ status = "running"
    /\ LET lines == fs[RT_Path].lines
       IN  IF Hits(lines, "import type { GenerationAction } from @/lib/curriculum/ai-generation-service") = {}
           THEN /\ status' = "err" /\ pc' = "done"
                /\ loc' = [all_lines |-> lines, content |-> lines]
           ELSE /\ status' = status /\ pc' = "cut_block"
                /\ loc' = [all_lines |-> lines,
                           content |-> InsertAfterFirst(lines,
                               "import type { GenerationAction } from @/lib/curriculum/ai-generation-service",
                               RT_new_imports)]
    /\ UNCHANGED <<script, fs, fs0, fsInit, run, wrote>>

\* lines 28-34: the pattern consumes the newline that ends the comment line,
\* so the line in front of which the match ends is at least two lines further
RT_Cut ==
    /\ script = "update-route" /\ pc = "cut_block" /\ status = "running"
    /\ LET match == BlockMatch(loc.content, "/** Shape of each lesson in the generated curriculum */",
                               "startswith: const SYSTEM_PROMPT_BASE", 2)
       IN  IF match = <<-1, -1>>
           THEN status' = "err" /\ pc' = "done" /\ loc' = loc
           ELSE /\ status' = status /\ pc' = "write_route"
                /\ loc' = [loc EXCEPT !.content = CutMatch(loc.content, match)]
    /\ UNCHANGED <<script, fs, fs0, fsInit, run, wrote>>

\* lines 36-37
RT_Write ==
    /\ script = "update-route" /\ pc = "write_route" /\ status = "running"
    /\ WriteFile(RT_Path, loc.content)
    /\ pc' = "done" /\ status' = "ok"
    /\ UNCHANGED <<script, fs0, fsInit, run, loc>>

\* ===================================================== the three update-atlas / update-route scripts
AT_Init ==
    /\ \/ FB_Init
       \/ AP_Init
       \/ RT_Init
    /\ fs0 = fs
    /\ fsInit = fs
    /\ run = 1
    /\ pc = "start"
    /\ loc = [all_lines |-> <<>>]
    /\ status = "running"
    /\ wrote = <<>>

AT_Next ==
    \/ FB_AddImport
    \/ FB_Cut
    \/ FB_Write
    \/ AP_AddImports
    \/ AP_CutTypes
    \/ AP_CutFuncs
    \/ AP_Write
    \/ RT_AddImports
    \/ RT_Cut
    \/ RT_Write
    \/ WriteFails
    \/ Rerun

SpecAtlas == AT_Init /\ [][AT_Next]_vars

\* ===================================================== all marker-based scripts
AllInit == Init \/ AT_Init

AllNext == Next \/ AT_Next

SpecAll == AllInit /\ [][AllNext]_vars

\* ===================================================== rewrite-create, rewrite-create-tailwind
\* Both scripts replace a fixed range of lines of src/pages/teacher/coursebuilder.html
\* by a new create section.  Several runs of them form a batch on the one file;
\* a run is a read of the file followed, later, by a write of it.  Under
\* SpecRewrite the variables script, pc, loc and status hold one value per run
\* of the batch, wrote lists the runs in the order of their writes, and run
\* counts the runs that have finished.

\* CREATE_START = 1583 - 1 (the same in both scripts)
CREATE_START == 1582

\* CREATE_END of rewrite-create.py
RC_CREATE_END == 1912

\* CREATE_END of rewrite-create-tailwind.py
TW_CREATE_END == 1915

\* len(NEW_CREATE.splitlines()) of rewrite-create.py
RC_NEW_CREATE_LINES == 333

\* len(NEW_CREATE.splitlines()) of rewrite-create-tailwind.py
TW_NEW_CREATE_LINES == 331

\* the runs of a batch
MaxRuns == 2

\* the lines that follow the "<!-- Preview View -->" line in coursebuilder.html
MaxTail == 4

Runs == 1..MaxRuns

RW_Scripts == {"rewrite-create", "rewrite-create-tailwind"}

CREATE_END(s) == IF s = "rewrite-create" THEN RC_CREATE_END ELSE TW_CREATE_END

\* the lines of NEW_CREATE: line n of the literal of script s
NEW_CREATE(s) ==
    [j \in 1..(IF s = "rewrite-create" THEN RC_NEW_CREATE_LINES ELSE TW_NEW_CREATE_LINES) |->
        [by |-> s, n |-> j]]

\* coursebuilder.html as rewrite-create.py expects it: the create section on
\* lines 1583..1912, "<!-- Preview View -->" on line 1913, then the rest
RW_Files ==
    { [i \in 1..(RC_CREATE_END + 1 + t) |-> [by |-> "coursebuilder.html", n |-> i]] : t \in 0..MaxTail }

\* the slice ending one line late
M_new_lines(s, lines) ==
    PySlice(lines, 0, CREATE_START) \o NEW_CREATE(s) \o PySlice(lines, CREATE_END(s) + 1, Len(lines))

\* the lines after the replaced range forgotten
M2_new_lines(s, lines) == PySlice(lines, 0, CREATE_START) \o NEW_CREATE(s)

\* new_lines = lines[:CREATE_START] + [NEW_CREATE] + lines[CREATE_END:], as
\* the lines "".join(new_lines) splits into
new_lines(s, lines) ==
    PySlice(lines, 0, CREATE_START) \o NEW_CREATE(s) \o PySlice(lines, CREATE_END(s), Len(lines))

RW_Init ==
    /\ script \in [Runs -> RW_Scripts]
    /\ \E f \in RW_Files : fs = [p \in {"coursebuilder.html"} |-> File(f)]
    /\ fs0 = fs
    /\ fsInit = fs
    /\ run = 0
    /\ pc = [p \in Runs |-> "read"]
    /\ loc = [p \in Runs |-> [lines |-> <<>>, new_lines |-> <<>>]]
    /\ status = [p \in Runs |-> "running"]
    /\ wrote = <<>>

\* lines = HTML_FILE.read_text().splitlines(keepends=True)
RW_Read(p) ==
    /\ pc[p] = "read"
    /\ loc' = [loc EXCEPT ![p].lines = fs["coursebuilder.html"].lines]
    /\ pc' = [pc EXCEPT ![p] = "write"]
    /\ UNCHANGED <<script, fs, fs0, fsInit, run, status, wrote>>

\* HTML_FILE.write_text("".join(new_lines))
RW_Write(p) ==
    /\ pc[p] = "write"
    /\ loc' = [loc EXCEPT ![p].new_lines = new_lines(script[p], loc[p].lines)]
    /\ fs' = [fs EXCEPT !["coursebuilder.html"] = File(loc'[p].new_lines)]
    /\ wrote' = Append(wrote, p)
    /\ pc' = [pc EXCEPT ![p] = "done"]
    /\ status' = [status EXCEPT ![p] = "ok"]
    /\ run' = run + 1
    /\ UNCHANGED <<script, fs0, fsInit>>

RW_Next ==
    \/ \E p \in Runs : RW_Read(p)
    \/ \E p \in Runs : RW_Write(p)

SpecRewrite == RW_Init /\ [][RW_Next]_vars

\* ===================================================== cleanup-html-simple, cleanup-html-structure
\* A page is a sequence of tokens [k, w, sp, nl]:
\*   k  : "div", "/div", "span", "/span", "nav", "/nav" (tags), "a" (an anchor
\*        element <a ...>...</a>), "comment", "text" (a text node), "ws" (a
\*        run of whitespace between two tokens that holds nl >= 1 newlines);
\*   w  : the words of a text node;
\*   sp : the longest run of spaces inside a text node;
\*   nl : the number of consecutive newlines of a whitespace run / the longest
\*        run of newlines inside a text node.
\* The indentation that follows a newline is not represented: the re-indent
\* loop of cleanup-html-simple recomputes it from the stripped lines alone.

\* longest page, in tokens
MaxTok == 4

\* runs of a cleaner on the same page
MaxCleanRuns == 2

Tag(k) == [k |-> k, w |-> "", sp |-> 0, nl |-> 0]

Ws(n) == [k |-> "ws", w |-> "", sp |-> 0, nl |-> n]

TextNode(w, sp, nl) == [k |-> "text", w |-> w, sp |-> sp, nl |-> nl]

Opens == {"div", "span", "nav"}

Closes == {"/div", "/span", "/nav"}

CloseOf == [t \in Opens |-> CASE t = "div" -> "/div" [] t = "span" -> "/span" [] t = "nav" -> "/nav"]

OpenOf == [t \in Closes |-> CASE t = "/div" -> "div" [] t = "/span" -> "span" [] t = "/nav" -> "nav"]

\* the tokens the pages of the model are made of (no page holds a nav element)
Alphabet ==
    {Tag("div"), Tag("/div"), Tag("span"), Tag("/span"),
     Tag("a"), Tag("comment"), Ws(3), TextNode("x", 3, 3), TextNode("y", 1, 0)}

\* adjacent whitespace runs are one run
RECURSIVE MergeWs(_)
MergeWs(x) ==
    IF Len(x) < 2 THEN x
    ELSE IF x[1].k = "ws" /\ x[2].k = "ws"
         THEN MergeWs(<<Ws(x[1].nl + x[2].nl)>> \o SubSeq(x, 3, Len(x)))
         ELSE <<x[1]>> \o MergeWs(Tail(x))

\* the pages of k tokens
Pages(k) == {x \in [1..k -> Alphabet] : MergeWs(x) = x}

CleanScripts == {"cleanup-html-simple", "cleanup-html-structure"}

CleanPath == "page.html"

Is(x, i, k) == i <= Len(x) /\ x[i].k = k

\* \s* : the first position from i on that is not whitespace
RECURSIVE SkipWs(_, _)
SkipWs(x, i) == IF Is(x, i, "ws") THEN SkipWs(x, i + 1) ELSE i

\* ----------------------------------------------------- cleanup-html-simple
\* [^<]* : the first position from i on that is not whitespace or text
RECURSIVE SkipNonTag(_, _)
SkipNonTag(x, i) ==
    IF Is(x, i, "ws") \/ Is(x, i, "text") THEN SkipNonTag(x, i + 1) ELSE i

\* the pattern <div[^>]*>[^<]*</div>, which also matches a div that holds text
RECURSIVE M_SubEmpty(_, _, _)
M_SubEmpty(x, i, open) ==
    IF i > Len(x) THEN <<>>
    ELSE IF x[i].k = open /\ Is(x, SkipNonTag(x, i + 1), CloseOf[open])
         THEN M_SubEmpty(x, SkipNonTag(x, i + 1) + 1, open)
         ELSE <<x[i]>> \o M_SubEmpty(x, i + 1, open)

\* re.sub(r'<div[^>]*>\s*</div>', '', content), likewise for span: the
\* leftmost non-overlapping matches, found in one scan from position i
RECURSIVE SubEmpty(_, _, _)
SubEmpty(x, i, open) ==
    IF i > Len(x) THEN <<>>
    ELSE IF x[i].k = open /\ Is(x, SkipWs(x, i + 1), CloseOf[open])
         THEN SubEmpty(x, SkipWs(x, i + 1) + 1, open)
         ELSE <<x[i]>> \o SubEmpty(x, i + 1, open)

\* re.sub(r'<div[^>]*>\s*<!--[^>]*-->\s*</div>', '', content)
RECURSIVE SubCommentDiv(_, _)
SubCommentDiv(x, i) ==
    IF i > Len(x) THEN <<>>
    ELSE LET c == SkipWs(x, i + 1)
             e == SkipWs(x, c + 1)
         IN  IF x[i].k = "div" /\ Is(x, c, "comment") /\ Is(x, e, "/div")
             THEN SubCommentDiv(x, e + 1)
             ELSE <<x[i]>> \o SubCommentDiv(x, i + 1)

\* re.sub(r'</div>\s*<div[^>]*>\s*<a', '<a', content)
RECURSIVE SubDivDivA(_, _)
SubDivDivA(x, i) ==
    IF i > Len(x) THEN <<>>
    ELSE LET d == SkipWs(x, i + 1)
             a == SkipWs(x, d + 1)
         IN  IF x[i].k = "/div" /\ Is(x, d, "div") /\ Is(x, a, "a")
             THEN <<x[a]>> \o SubDivDivA(x, a + 1)
             ELSE <<x[i]>> \o SubDivDivA(x, i + 1)

\* re.sub(r'</a>\s*</nav>', '</a>\n</nav>', content)
RECURSIVE SubANav(_, _)
SubANav(x, i) ==
    IF i > Len(x) THEN <<>>
    ELSE LET n == SkipWs(x, i + 1)
         IN  IF x[i].k = "a" /\ Is(x, n, "/nav")
             THEN <<x[i], Ws(1), x[n]>> \o SubANav(x, n + 1)
             ELSE <<x[i]>> \o SubANav(x, i + 1)

\* re.sub(r'\n\s*\n\s*\n+', '\n\n', content): three or more newlines become two
SubBlankLines(x) ==
    [i \in 1..Len(x) |-> [x[i] EXCEPT !.nl = IF @ >= 3 THEN 2 ELSE @]]

\* re.sub(r'  +', '  ', content): a run of spaces becomes two spaces
SubSpaces(x) ==
    [i \in 1..Len(x) |-> [x[i] EXCEPT !.sp = IF @ >= 2 THEN 2 ELSE @]]

simple_content(x) ==
    LET c1 == SubEmpty(x, 1, "div")
        c2 == SubEmpty(c1, 1, "span")
        c3 == SubCommentDiv(c2, 1)
        c4 == SubDivDivA(c3, 1)
        c5 == SubANav(c4, 1)
        c6 == SubBlankLines(MergeWs(c5))
    IN  SubSpaces(c6)

\* ----------------------------------------------------- cleanup-html-structure
Closers(stack) == [i \in 1..Len(stack) |-> Tag(CloseOf[stack[i]])]

\* BeautifulSoup(content, 'html.parser') followed by str(soup): an end tag
\* closes every element opened since the nearest open element of its name and
\* is dropped when there is none; elements still open at the end are closed
RECURSIVE Parse(_, _, _)
Parse(x, i, stack) ==
    IF i > Len(x) THEN Closers(stack)
    ELSE IF x[i].k \in Opens THEN <<x[i]>> \o Parse(x, i + 1, <<x[i].k>> \o stack)
    ELSE IF x[i].k \in Closes
         THEN LET at == {n \in 1..Len(stack) : stack[n] = OpenOf[x[i].k]}
              IN  IF at = {} THEN Parse(x, i + 1, stack)
                  ELSE LET n == CHOOSE m \in at : \A o \in at : m <= o
                       IN  Closers(SubSeq(stack, 1, n))
                             \o Parse(x, i + 1, SubSeq(stack, n + 1, Len(stack)))
    ELSE <<x[i]>> \o Parse(x, i + 1, stack)

\* the position of the end tag of the element opened before position j,
\* depth elements being open in between
RECURSIVE MatchFrom(_, _, _)
MatchFrom(x, j, depth) ==
    IF x[j].k \in Closes
    THEN IF depth = 0 THEN j ELSE MatchFrom(x, j + 1, depth - 1)
    ELSE IF x[j].k \in Opens THEN MatchFrom(x, j + 1, depth + 1)
    ELSE MatchFrom(x, j + 1, depth)

Match(x, i) == MatchFrom(x, i + 1, 0)

Depth(x, j) ==
    Cardinality({p \in 1..(j - 1) : x[p].k \in Opens})
      - Cardinality({p \in 1..(j - 1) : x[p].k \in Closes})

\* tag.children: the positions where the children of the element at i start
Children(x, i) ==
    {j \in (i + 1)..(Match(x, i) - 1) :
        x[j].k \notin Closes /\ Depth(x, j) = Depth(x, i) + 1}

\* the tokens of x at the positions outside R, in order
RECURSIVE Keep(_, _, _)
Keep(x, i, R) ==
    IF i > Len(x) THEN <<>>
    ELSE (IF i \in R THEN <<>> ELSE <<x[i]>>) \o Keep(x, i + 1, R)

\* not tag.get_text(strip=True) and not tag.find_all(), for the div or span
\* opened at i: nothing but whitespace and comments up to its end tag
RECURSIVE SkipWsComments(_, _)
SkipWsComments(x, i) ==
    IF Is(x, i, "ws") \/ Is(x, i, "comment") THEN SkipWsComments(x, i + 1) ELSE i

IsEmptyTag(x, i) ==
    x[i].k \in {"div", "span"} /\ Is(x, SkipWsComments(x, i + 1), CloseOf[x[i].k])

\* the first loop: find_all lists the tags before any is decomposed, in
\* document order, so a tag is judged with its descendants still in place
decompose_empty(x) ==
    LET E == {i \in 1..Len(x) : IsEmptyTag(x, i)}
    IN  Keep(x, 1, UNION {i..Match(x, i) : i \in E})

\* children = [child for child in div.children
\*             if not isinstance(child, NavigableString) or child.strip()]
NonBlankChildren(x, i) == {j \in Children(x, i) : x[j].k /= "ws"}

\* len(children) == 1 and children[0].name
HasOneElementChild(x, i) ==
    /\ x[i].k = "div"
    /\ Cardinality(NonBlankChildren(x, i)) = 1
    /\ \A j \in NonBlankChildren(x, i) : x[j].k \in Opens \cup {"a"}

\* the second loop: div.replace_with(child) leaves the child in the place of
\* the div and drops the whitespace the div held around it
replace_wrappers(x) ==
    LET U == {i \in 1..Len(x) : HasOneElementChild(x, i)}
    IN  Keep(x, 1, UNION {{i, Match(x, i)} \cup (Children(x, i) \ NonBlankChildren(x, i))
                            : i \in U})

IsMarkup(x, i) == i >= 1 /\ i <= Len(x) /\ x[i].k \notin {"ws", "text"}

\* re.sub(r'>\s*\n\s*<', '>\n<', cleaned_html): whitespace between two tags
\* (or comments) becomes one newline
SubInterTag(x) ==
    [i \in 1..Len(x) |->
        IF x[i].k = "ws" /\ IsMarkup(x, i - 1) /\ IsMarkup(x, i + 1)
        THEN Ws(1) ELSE x[i]]

structure_content(x) ==
    LET soup == Parse(x, 1, <<>>)
        s1   == decompose_empty(soup)
        s2   == replace_wrappers(s1)
        s3   == SubBlankLines(MergeWs(s2))
    IN  SubInterTag(s3)

\* ----------------------------------------------------- both cleaners
clean(s, x) == IF s = "cleanup-html-simple" THEN simple_content(x) ELSE structure_content(x)

CleanInit ==
    /\ script \in CleanScripts
    /\ \E k \in 0..MaxTok : \E x \in Pages(k) : fs = [p \in {CleanPath} |-> File(x)]
    /\ fs0 = fs
    /\ fsInit = fs
    /\ run = 0
    /\ pc = "clean"
    /\ loc = [content |-> <<>>]
    /\ status = "running"
    /\ wrote = <<>>

CleanRun(s) ==
    /\ script = s
    /\ run < MaxCleanRuns
    /\ status /= "err"
    /\ loc' = [content |-> clean(s, fs[CleanPath].lines)]
    /\ fs0' = fs
    /\ fs' = [fs EXCEPT ![CleanPath] = File(loc'.content)]
    /\ wrote' = <<CleanPath>>
    /\ run' = run + 1
    /\ status' = "ok"
    /\ UNCHANGED <<script, fsInit, pc>>

clean_html_structure_simple == CleanRun("cleanup-html-simple")

clean_html_structure == CleanRun("cleanup-html-structure")

\* except Exception as e: the error is printed and the next file is taken;
\* the page is as it was, or empty when the write failed after the open
CleanFails ==
    /\ run < MaxCleanRuns
    /\ status /= "err"
    /\ fs0' = fs
    /\ \/ fs' = fs /\ wrote' = <<>>
       \/ fs' = [fs EXCEPT ![CleanPath] = File(<<>>)] /\ wrote' = <<CleanPath>>
    /\ run' = run + 1
    /\ status' = "err"
    /\ UNCHANGED <<script, fsInit, pc, loc>>

CleanNext ==
    \/ clean_html_structure_simple
    \/ clean_html_structure
    \/ CleanFails

SpecClean == CleanInit /\ [][CleanNext]_vars

\* ===================================================== update_nav_classes
\* The text of an HTML file is a sequence of pieces; a piece is one of the
\* strings below, and the text is their concatenation.  No string of the
\* list is a concatenation of others, and every search pattern of the script
\* is a concatenation of pieces, so a pattern occurs in the text exactly
\* where its pieces occur in the sequence.
\*   "class="  "q" (a double quote)  "sp" (one space)  "w" (a word of \w
\*   characters that holds none of the other pieces)
\*   "nav"  "nav--"  "nav__"  "ul"  "ul--"  "ul__"  "item"  "link"  "brand"
\*   "cta"  "link--subtle"  "link--header"  "link--footer"

\* the pieces \w matches throughout
WordPieces == {"w", "nav", "nav__", "ul", "ul__", "item", "link", "brand", "cta"}

\* a substitution that stops behind the first match (count=1)
M_ReSub(t, pat, rep) ==
    LET at == {i \in 0..(Len(t) - Len(pat)) : SubSeq(t, i + 1, i + Len(pat)) = pat}
        i == CHOOSE j \in at : \A k \in at : j <= k
    IN  IF at = {} THEN t
        ELSE SubSeq(t, 1, i) \o rep \o SubSeq(t, i + Len(pat) + 1, Len(t))

\* re.sub(pat, rep, t) for a pattern without operators: every match, found
\* from the left, the search going on behind the match
RECURSIVE ReSub(_, _, _)
ReSub(t, pat, rep) ==
    IF Len(t) < Len(pat) THEN t
    ELSE IF SubSeq(t, 1, Len(pat)) = pat
         THEN rep \o ReSub(SubSeq(t, Len(pat) + 1, Len(t)), pat, rep)
         ELSE <<t[1]>> \o ReSub(Tail(t), pat, rep)

\* the length of the longest run of word pieces t starts with
RECURSIVE WordRun(_)
WordRun(t) == IF t /= <<>> /\ t[1] \in WordPieces THEN 1 + WordRun(Tail(t)) ELSE 0

\* line 18: re.sub(r'class="nav nav--(\w+)"', r'class="ul ul--\1"', content)
RECURSIVE SubNavUl(_)
SubNavUl(t) ==
    LET head == <<"class=", "q", "nav", "sp", "nav--">>
        k == IF Len(t) > 5 THEN WordRun(SubSeq(t, 6, Len(t))) ELSE 0
    IN  IF Len(t) < 7 THEN t
        ELSE IF SubSeq(t, 1, 5) = head /\ k >= 1 /\ Len(t) >= 6 + k /\ t[6 + k] = "q"
             THEN <<"class=", "q", "ul", "sp", "ul--">> \o SubSeq(t, 6, 6 + k)
                    \o SubNavUl(SubSeq(t, 7 + k, Len(t)))
             ELSE <<t[1]>> \o SubNavUl(Tail(t))

\* lines 18-37: the eight substitutions, in the order of the script
nav_content(content) ==
    LET c1 == SubNavUl(content)
        c2 == ReSub(c1, <<"nav__", "item">>, <<"ul__", "item">>)
        c3 == ReSub(c2, <<"nav__", "link", "sp", "link", "q">>, <<"link", "sp", "link--header", "q">>)
        c4 == ReSub(c3, <<"nav__", "link", "sp", "link", "sp", "link--subtle">>,
                        <<"link", "sp", "link--footer", "sp", "link--subtle">>)
        c5 == ReSub(c4, <<"nav__", "link", "q">>, <<"link", "q">>)
        c6 == ReSub(c5, <<"nav__", "brand">>, <<"brand">>)
        c7 == ReSub(c6, <<"nav__", "cta">>, <<"cta">>)
    IN  ReSub(c7, <<"q", "nav", "sp", "nav--">>, <<"q", "ul", "sp", "ul--">>)

\* pieces of markup the files are put together from
NavFragments ==
    { <<"class=", "q", "nav", "sp", "nav--", "w", "q">>,
      <<"q", "nav", "sp", "nav--", "w", "sp", "w", "q">>,
      <<"nav__", "item">>,
      <<"nav__", "link", "sp", "link", "q">>,
      <<"nav__", "link", "sp", "link", "sp", "link--subtle">>,
      <<"nav__", "link", "q">>,
      <<"nav__", "link">>,
      <<"nav__", "link", "sp">>,
      <<"nav__", "brand">>,
      <<"nav__", "cta">>,
      <<"nav__">>, <<"sp">>, <<"q">>, <<"w">> }

RECURSIVE Flatten(_)
Flatten(ss) == IF ss = <<>> THEN <<>> ELSE ss[1] \o Flatten(Tail(ss))

\* the texts made of at most n fragments
NavDocs(n) == {Flatten(ss) : ss \in UNION {[1..k -> NavFragments] : k \in 0..n}}

\* the second file of a batch: an empty file, one with nothing to change, one
\* with a brand link to rename
NavSecondDocs == { <<>>, <<"w">>, <<"nav__", "brand">> }

\* ===================================================== the batches: main() of the three HTML scripts
\* Under SpecBatch a run is one call of main(): the loop over html_files.
\* loc.i is the number of files the loop has taken, loc.outcome what became of
\* each file in this run ("pending" before its turn), loc.prev the outcomes
\* of the run before, loc.updated_files the counter of update_nav_classes.

\* fragments in the first file of a batch of update_nav_classes
MaxFrag == 2

\* tokens in the first file of a batch of a cleaner
MaxBatchTok == 2

BatchScripts == {"cleanup-html-simple", "cleanup-html-structure", "update_nav_classes"}

\* the files main() finds, in the order of its loop
html_files == <<"a.html", "b.html">>

BatchPaths == {html_files[k] : k \in 1..Len(html_files)}

Pending == [p \in BatchPaths |-> "pending"]

BatchInit ==
    /\ script \in BatchScripts
    /\ IF script = "update_nav_classes"
       THEN \E x \in NavDocs(MaxFrag) : \E y \in NavSecondDocs :
               fs = [p \in BatchPaths |-> IF p = html_files[1] THEN File(x) ELSE File(y)]
       ELSE \E k \in 0..MaxBatchTok : \E x \in Pages(k) : \E j \in 0..1 : \E y \in Pages(j) :
               fs = [p \in BatchPaths |-> IF p = html_files[1] THEN File(x) ELSE File(y)]
    /\ fs0 = fs
    /\ fsInit = fs
    /\ run = 1
    /\ pc = "loop"
    /\ loc = [i |-> 0, updated_files |-> 0, outcome |-> Pending, prev |-> Pending]
    /\ status = "running"
    /\ wrote = <<>>

\* the file the loop takes next
NextFile == html_files[loc.i + 1]

\* the loop goes on to the next file, with what became of this one
Taken(what, counted) ==
    loc' = [loc EXCEPT !.i = @ + 1, !.outcome[NextFile] = what, !.updated_files = @ + counted]

\* the file counted as updated without the comparison and without the write
M_update_navigation_classes ==
    /\ script = "update_nav_classes" /\ pc = "loop" /\ loc.i < Len(html_files)
    /\ Taken("updated", 1)
    /\ UNCHANGED <<script, fs, fs0, fsInit, run, pc, status, wrote>>

\* update_nav_classes.py lines 10-47 and 71-73: the file is read and
\* rewritten, written back when the content changed, and counted when the
\* function returned True
update_navigation_classes ==
    /\ script = "update_nav_classes" /\ pc = "loop" /\ loc.i < Len(html_files)
    /\ LET original_content == fs[NextFile].lines
           content == nav_content(original_content)
       IN  IF content /= original_content
           THEN /\ WriteFile(NextFile, content)
                /\ Taken("updated", 1)
           ELSE /\ UNCHANGED <<fs, wrote>>
                /\ Taken("unchanged", 0)
    /\ UNCHANGED <<script, fs0, fsInit, run, pc, status>>

\* lines 50-52: an exception is printed and False returned.  The read raised
\* (the file is as it was and was not opened for writing), or, the content
\* having changed, the write raised (the file is as it was when open() failed,
\* empty when it had been opened)
NavFails ==
    /\ script = "update_nav_classes" /\ pc = "loop" /\ loc.i < Len(html_files)
    /\ \/ UNCHANGED <<fs, wrote>>
       \/ /\ nav_content(fs[NextFile].lines) /= fs[NextFile].lines
          /\ WriteFile(NextFile, <<>>)
    /\ Taken("error", 0)
    /\ UNCHANGED <<script, fs0, fsInit, run, pc, status>>

\* cleanup-html-simple.py 8-56, cleanup-html-structure.py 9-39: the file is
\* read, cleaned and written
BatchClean(s) ==
    /\ script = s /\ pc = "loop" /\ loc.i < Len(html_files)
    /\ WriteFile(NextFile, clean(s, fs[NextFile].lines))
    /\ Taken("cleaned", 0)
    /\ UNCHANGED <<script, fs0, fsInit, run, pc, status>>

main_simple == BatchClean("cleanup-html-simple")

main_structure == BatchClean("cleanup-html-structure")

\* the exception not caught: it ends main
M_BatchCleanFails ==
    /\ script \in {"cleanup-html-simple", "cleanup-html-structure"}
    /\ pc = "loop" /\ loc.i < Len(html_files)
    /\ Taken("error", 0)
    /\ pc' = "done" /\ status' = "err"
    /\ UNCHANGED <<script, fs, fs0, fsInit, run, wrote>>

\* cleanup-html-simple.py 58-59, cleanup-html-structure.py 41-42: the
\* exception is printed.  The read or the transformation raised (the file is
\* as it was), or the write raised after the open (the file is empty)
BatchCleanFails ==
    /\ script \in {"cleanup-html-simple", "cleanup-html-structure"}
    /\ pc = "loop" /\ loc.i < Len(html_files)
    /\ \/ UNCHANGED <<fs, wrote>>
       \/ WriteFile(NextFile, <<>>)
    /\ Taken("error", 0)
    /\ UNCHANGED <<script, fs0, fsInit, run, pc, status>>

\* the loop is over: main() returns (and update_nav_classes prints its total)
BatchEnd ==
    /\ script \in BatchScripts /\ pc = "loop" /\ loc.i = Len(html_files)
    /\ pc' = "done" /\ status' = "ok"
    /\ UNCHANGED <<script, fs, fs0, fsInit, run, loc, wrote>>

\* main() of update_nav_classes is started again on the files its first run left
BatchRerun ==
    /\ script = "update_nav_classes" /\ pc = "done" /\ run = 1
    /\ run' = 2
    /\ fs0' = fs
    /\ loc' = [i |-> 0, updated_files |-> 0, outcome |-> Pending, prev |-> loc.outcome]
    /\ pc' = "loop" /\ status' = "running"
    /\ wrote' = <<>>
    /\ UNCHANGED <<script, fs, fsInit>>

BatchNext ==
    \/ update_navigation_classes
    \/ NavFails
    \/ main_simple
    \/ main_structure
    \/ BatchCleanFails
    \/ BatchEnd
    \/ BatchRerun

SpecBatch == BatchInit /\ [][BatchNext]_vars


\* ===================================================== cleanup-html-simple: the indentation loop
\* Lines 27-54 of cleanup-html-simple.py, on the content the substitutions
\* left.  A line is [indent, stripped]: the spaces in front of it and what
\* line.strip() is:
\*   "blank"          nothing
\*   "open"           <div class="a">       an element opened and left open
\*   "close"          </div>
\*   "both"           <p>some text</p>      an element opened and closed
\*   "void_listed"    <img src="a.png">     input, img, br, hr, meta or link
\*   "void_unlisted"  <source src="a.mp4">  a void element the list lacks
\*   "self_closing"   <path d="M0 0" />
\*   "decl"           <!-- note -->, <!DOCTYPE html>
\*   "text"           some text
\* Under SpecIndent loc holds the variables of the loop: lines, the number i
\* of lines taken, indent_level and fixed_lines.

\* the lines of a page
MaxLines == 4

Stripped == {"blank", "open", "close", "both", "void_listed", "void_unlisted",
             "self_closing", "decl", "text"}

\* a line as the file holds it before the run
RawLine(s) == [indent |-> IF s = "blank" THEN 0 ELSE 1, stripped |-> s]

IndentDocs(n) == UNION {[1..k -> {RawLine(s) : s \in Stripped}] : k \in 0..n}

\* stripped.startswith('</')
StartsClosing(l) == l.stripped = "close"

\* line 45: stripped.startswith('<') and not stripped.startswith('</') and
\* not stripped.endswith('/>') and not stripped.startswith('<!')
LooksOpening(l) == l.stripped \in {"open", "both", "void_listed", "void_unlisted"}

\* line 47-48: tag_name not in ['input', 'img', 'br', 'hr', 'meta', 'link']
NotListed(l) == l.stripped /= "void_listed"

IndentInit ==
    /\ script = "cleanup-html-simple"
    /\ \E d \in IndentDocs(MaxLines) : fs = [p \in {CleanPath} |-> File(d)]
    /\ fs0 = fs
    /\ fsInit = fs
    /\ run = 1
    /\ pc = "indent"
    /\ loc = [lines |-> fs[CleanPath].lines, i |-> 0, indent_level |-> 0, fixed_lines |-> <<>>]
    /\ status = "running"
    /\ wrote = <<>>

\* lines 32-49: one turn of the loop
IndentLine ==
    /\ pc = "indent" /\ loc.i < Len(loc.lines)
    /\ LET line == loc.lines[loc.i + 1]
           level == IF StartsClosing(line) THEN Max(0, loc.indent_level - 1) ELSE loc.indent_level
       IN  IF line.stripped = "blank"
           THEN loc' = [loc EXCEPT !.i = @ + 1,
                                   !.fixed_lines = Append(@, [indent |-> 0, stripped |-> "blank"])]
           ELSE loc' = [loc EXCEPT !.i = @ + 1,
                                   !.fixed_lines = Append(@, [indent |-> 2 * level, stripped |-> line.stripped]),
                                   !.indent_level = IF LooksOpening(line) /\ NotListed(line)
                                                    THEN level + 1 ELSE level]
    /\ UNCHANGED <<script, fs, fs0, fsInit, run, pc, status, wrote>>

\* lines 51-54: content = '\n'.join(fixed_lines), written to the file
IndentWrite ==
    /\ pc = "indent" /\ loc.i = Len(loc.lines)
    /\ WriteFile(CleanPath, loc.fixed_lines)
    /\ pc' = "done" /\ status' = "ok"
    /\ UNCHANGED <<script, fs0, fsInit, run, loc>>

IndentNext ==
    \/ IndentLine
    \/ IndentWrite

SpecIndent == IndentInit /\ [][IndentNext]_vars


\* ===================================================== rebuild-isced-data
\* One run of scripts/rebuild-isced-data.py.  A code is the sequence of its
\* digits, a row of the CSV its notation (the digits behind the "F") and
\* its label; the JSON file holds the list `domains'.

\* the rows of the CSV
MaxRows == 3

IscedCsv == "/tmp/iscedf13.csv"

IscedJson == "src/data/isced2011.json"

\* notations F01, F02, F011, F012, F021, F0111, F0211 and the extended F01111
Notations ==
    { <<0, 1>>, <<0, 2>>, <<0, 1, 1>>, <<0, 1, 2>>, <<0, 2, 1>>,
      <<0, 1, 1, 1>>, <<0, 2, 1, 1>>, <<0, 1, 1, 1, 1>> }

RowLabels == {"Education", "Arts and humanities"}

IscedRows(n) ==
    SeqsUpTo({[notation |-> c, label |-> l] : c \in Notations, l \in RowLabels}, n)

\* line 52: re.fullmatch(r"F(\d{2}|\d{3}|\d{4})", notation)
fullmatch(notation) == Len(notation) \in {2, 3, 4}

\* lines 48-56: the (code, label) pairs of the canonical rows, in row order
RECURSIVE items_of(_)
items_of(rows) ==
    IF rows = <<>> THEN <<>>
    ELSE IF fullmatch(Head(rows).notation)
         THEN <<[code |-> Head(rows).notation, label |-> Head(rows).label]>> \o items_of(Tail(rows))
         ELSE items_of(Tail(rows))

\* a dict.setdefault that overwrites the entry of a key it has
M_setdefault(labels, code, label) == (code :> label) @@ labels

\* line 61: labels.setdefault(code, label)
setdefault(labels, code, label) ==
    IF code \in DOMAIN labels THEN labels ELSE labels @@ (code :> label)

\* lines 59-61: the dict after the loop over the first n items
RECURSIVE labels_of(_,_)
labels_of(items, n) ==
    IF n = 0 THEN [c \in {} |-> ""]
    ELSE setdefault(labels_of(items, n - 1), items[n].code, items[n].label)

\* the order of str: digit by digit, a proper prefix first
RECURSIVE StrLess(_,_)
StrLess(a, b) ==
    IF a = <<>> THEN b /= <<>>
    ELSE IF b = <<>> THEN FALSE
    ELSE IF a[1] /= b[1] THEN a[1] < b[1]
    ELSE StrLess(Tail(a), Tail(b))

\* sorted(...) of a set of codes
RECURSIVE sorted(_)
sorted(S) ==
    IF S = {} THEN <<>>
    ELSE LET m == CHOOSE x \in S : \A y \in S \ {x} : StrLess(x, y)
         IN  <<m>> \o sorted(S \ {m})

\* c.startswith(p)
startswith(c, p) == Len(p) <= Len(c) /\ SubSeq(c, 1, Len(p)) = p

\* [c for c in codes if c.startswith(p)]
RECURSIVE Starting(_,_)
Starting(codes, p) ==
    IF codes = <<>> THEN <<>>
    ELSE IF startswith(Head(codes), p)
         THEN <<Head(codes)>> \o Starting(Tail(codes), p)
         ELSE Starting(Tail(codes), p)

\* line 63
broad_codes(labels) == sorted({c \in DOMAIN labels : Len(c) = 2})

\* line 64
narrow_codes(labels) ==
    sorted({c \in DOMAIN labels : Len(c) = 3 /\ PySlice(c, 0, 2) \in DOMAIN labels})

\* line 65
detailed_codes(labels) ==
    sorted({c \in DOMAIN labels : Len(c) = 4 /\ PySlice(c, 0, 3) \in DOMAIN labels})

\* lines 26-30, on the labels of the rows
slugify(text) ==
    CASE text = "Education" -> "education"
      [] text = "Arts and humanities" -> "arts-and-humanities"
      [] OTHER -> "item"

\* lines 33-38
node(code, label) ==
    [value |-> <<code, slugify(label)>>, label |-> label, code |-> code]

\* line 76
subtopics(dc) ==
    << [value |-> <<dc, "other">>, label |-> "Other", code |-> <<dc, "other">>] >>

\* lines 73-77
topics(nc, labels) ==
    LET dcs == Starting(detailed_codes(labels), nc)
    IN  [k \in 1..Len(dcs) |->
            node(dcs[k], labels[dcs[k]]) @@ [subtopics |-> subtopics(dcs[k])]]

\* lines 70-79
subjects(bc, labels) ==
    LET ncs == Starting(narrow_codes(labels), bc)
    IN  [k \in 1..Len(ncs) |->
            node(ncs[k], labels[ncs[k]]) @@ [topics |-> topics(ncs[k], labels)]]

\* lines 67-81
domains(labels) ==
    LET bcs == broad_codes(labels)
    IN  [k \in 1..Len(bcs) |->
            node(bcs[k], labels[bcs[k]]) @@ [subjects |-> subjects(bcs[k], labels)]]

IscedInit ==
    /\ script = "rebuild-isced-data"
    /\ \E rows \in IscedRows(MaxRows) :
           fs = (IscedCsv :> File(rows)) @@ (IscedJson :> Absent)
    /\ fs0 = fs
    /\ fsInit = fs
    /\ run = 1
    /\ pc = "read"
    /\ loc = [items |-> <<>>, labels |-> <<>>, domains |-> <<>>, printed |-> <<>>]
    /\ status = "running"
    /\ wrote = <<>>

\* lines 44-61: the rows, the canonical items, the first-seen labels
IscedRead ==
    /\ pc = "read"
    /\ LET items == items_of(fs[IscedCsv].lines)
       IN  loc' = [loc EXCEPT !.items = items, !.labels = labels_of(items, Len(items))]
    /\ pc' = "build"
    /\ UNCHANGED <<script, fs, fs0, fsInit, run, status, wrote>>

\* lines 63-81: the three code lists and the hierarchy
IscedBuild ==
    /\ pc = "build"
    /\ loc' = [loc EXCEPT !.domains = domains(loc.labels)]
    /\ pc' = "write"
    /\ UNCHANGED <<script, fs, fs0, fsInit, run, status, wrote>>

\* lines 83-87: the JSON file and the counts printed
IscedWrite ==
    /\ pc = "write"
    /\ WriteFile(IscedJson, loc.domains)
    /\ loc' = [loc EXCEPT !.printed = [broad |-> Len(broad_codes(loc.labels)),
                                       narrow |-> Len(narrow_codes(loc.labels)),
                                       detailed |-> Len(detailed_codes(loc.labels))]]
    /\ pc' = "done" /\ status' = "ok"
    /\ UNCHANGED <<script, fs0, fsInit, run>>

IscedNext ==
    \/ IscedRead
    \/ IscedBuild
    \/ IscedWrite

SpecIsced == IscedInit /\ [][IscedNext]_vars


\* ===================================================== properties
TB_Done ==
    script = "split-template-blueprint" /\ run = 1 /\ pc = "done" /\ status = "ok"

\* the six offsets increase in the order the script's slices assume
TB_InOrder ==
    /\ loc.props_start < loc.types_start
    /\ loc.types_start < loc.media_start
    /\ loc.media_start < loc.slot_views_start
    /\ loc.slot_views_start < loc.live_start
    /\ loc.live_start < loc.main_start

\* in how many places of the files line i of the document of the run is found
Emitted(i) ==
    Cardinality(UNION { {<<p, k>> : k \in {k \in 1..Len(fs[p].lines) : fs[p].lines[k].src = i}} :
                        p \in DOMAIN fs })

TB_Orig == fs0["template-blueprint.tsx"].lines

\* line i (1-based) lies in the media block at or after a renderer comment
TB_InRendererTail(i) ==
    \E r \in (loc.media_start + 1)..i :
        /\ i <= loc.slot_views_start
        /\ Contains(TB_Orig[r], "// --- JSON Blueprint Renderer")

TB_IsUseDroppable(l) == Contains(l, "import { useDroppable } from @dnd-kit/core")

SplitScripts == {"split-template-blueprint", "split-canvas-projection",
                 "split-toolbar", "update-ai-service"}

\* the file a script reads and rewrites
OriginalPath ==
    [ x \in {"split-template-blueprint", "split-canvas-projection", "split-toolbar",
             "update-ai-service", "update-classification-section",
             "update-coursebuilder-page", "update-schedule-section"} |->
        CASE x = "split-template-blueprint"      -> "template-blueprint.tsx"
          [] x = "split-canvas-projection"       -> "canvas-projection.ts"
          [] x = "split-toolbar"                 -> "ToolBar.tsx"
          [] x = "update-ai-service"             -> "ai-generation-service.ts"
          [] x = "update-classification-section" -> "classification-section.tsx"
          [] x = "update-coursebuilder-page"     -> "page.tsx"
          [] x = "update-schedule-section"       -> "schedule-section.tsx" ]

\* the symbols a synthesized line re-exports (`export { ... } from'): only the
\* block update-ai-service appends does
ReExports(l) == IF l.kind = "header" /\ l.sym = "re-exports" THEN AI_ReExported ELSE {}

\* the symbols importable from a file: its exported declarations and its re-exports
Exported(lines) ==
    {lines[i].sym : i \in {i \in 1..Len(lines) : lines[i].kind = "decl" /\ lines[i].exp >= 1}}
      \cup UNION {ReExports(lines[i]) : i \in 1..Len(lines)}

SplitDone == script \in SplitScripts /\ run = 1 /\ pc = "done" /\ status = "ok"

\* C2: after a split script completes, every symbol that was exported from
\* the original path before the run is still exported from that path, by a
\* declaration that stayed or by a re-export.
C2_ShimTransparency ==
    SplitDone => Exported(fs0[OriginalPath[script]].lines) \subseteq Exported(fs[OriginalPath[script]].lines)

\* ---------------------------------------------------------- missing markers
TB_Patterns == {"interface TemplateBlueprintProps {", "export interface TemplateAreaMediaItem {",
                "function resolveEmbedUrl(url: string): string | null {",
                "function SlotSectionLabel({ children }: { children: React.ReactNode }) {",
                "function LiveNestedSlot({", "export function JsonTemplatePreview({"}

TL_Patterns == {"// --- Option primitives", "// --- Tool options strip",
                "function ToolButton<", "export function ToolBar()"}

\* the document the current run started from
Input == fs0[OriginalPath[script]].lines

\* the scripts that test what their searches returned and exit
AbortingScripts == {"split-template-blueprint", "split-toolbar", "split-canvas-projection",
                    "update-ai-service", "update-classification-section"}

\* a marker or block the script searches for matches nothing in the input
MarkerMissingIn(doc) ==
    CASE script = "split-template-blueprint" -> \E pt \in TB_Patterns : Hits(doc, pt) = {}
      [] script = "split-toolbar" -> \E pt \in TL_Patterns : Hits(doc, pt) = {}
      [] script = "split-canvas-projection" ->
           Hits(doc, "startswith: function estimateSessionPages") = {}
      [] script = "update-ai-service" ->
           Hits(doc, "startswith: function tokenizeSeedText") \ {1} = {}
      [] script = "update-classification-section" ->
           \/ Hits(doc, "  const classYears = [") = {}
           \/ Hits(doc, "  // Helper to match display string") = {}
      [] script = "update-coursebuilder-page" ->
           LET r == CB_resolve(CB_insert_import(doc))
           IN  r.start_idx = -1 \/ r.end_idx = -1
      [] script = "update-schedule-section" ->
           Hits(doc, "PT") = {} \/ Hits(doc, "BLOCK_TO_REMOVE") = {}

MarkerMissing == MarkerMissingIn(Input)

\* the import block a script inserts is in the lines
HasImportOf(lines, module) == \E i \in 1..Len(lines) : lines[i] = L("import_open", module, 0)

Patterns ==
    CASE script = "split-template-blueprint" -> TB_Patterns
      [] script = "split-toolbar" -> TL_Patterns
      [] script = "split-canvas-projection" -> {"startswith: function estimateSessionPages"}
      [] script = "update-ai-service" -> {"startswith: function tokenizeSeedText"}
      [] script = "update-classification-section" ->
           {"  const classYears = [", "  // Helper to match display string"}
      [] OTHER -> {}

\* every marker matches, and one of them matches more than one line
AmbiguousIn(doc) ==
    /\ script \in AbortingScripts
    /\ ~MarkerMissingIn(doc)
    /\ \E pt \in Patterns : Cardinality(Hits(doc, pt)) > 1

Ambiguous == AmbiguousIn(Input)

\* the number of input lines in front of the first line matching pt
BeforeIn(doc, pt) == Cardinality({i \in 1..Len(doc) : \A j \in 1..i : ~Contains(doc[j], pt)})

Before(pt) == BeforeIn(Input, pt)

\* the input lines (by position) that a file holds
Srcs(path) == {fs[path].lines[k].src : k \in 1..Len(fs[path].lines)} \ {0}

\* the positions a+1 .. b
Between(a, b) == {i \in 1..Len(Input) : a < i /\ i <= b}

\* ------------------------------------------------------ out-of-order markers
\* every marker matches, but the first matches are not in the order the
\* slices of the script assume
OutOfOrderIn(doc) ==
    /\ ~MarkerMissingIn(doc)
    /\ CASE script = "split-template-blueprint" ->
               ~( /\ BeforeIn(doc, "interface TemplateBlueprintProps {")
                       < BeforeIn(doc, "export interface TemplateAreaMediaItem {")
                  /\ BeforeIn(doc, "export interface TemplateAreaMediaItem {")
                       < BeforeIn(doc, "function resolveEmbedUrl(url: string): string | null {")
                  /\ BeforeIn(doc, "function resolveEmbedUrl(url: string): string | null {")
                       < BeforeIn(doc, "function SlotSectionLabel({ children }: { children: React.ReactNode }) {")
                  /\ BeforeIn(doc, "function SlotSectionLabel({ children }: { children: React.ReactNode }) {")
                       < BeforeIn(doc, "function LiveNestedSlot({")
                  /\ BeforeIn(doc, "function LiveNestedSlot({")
                       < BeforeIn(doc, "export function JsonTemplatePreview({") )
         [] script = "split-toolbar" ->
               ~( /\ BeforeIn(doc, "// --- Option primitives") < BeforeIn(doc, "// --- Tool options strip")
                  /\ BeforeIn(doc, "// --- Tool options strip") < BeforeIn(doc, "function ToolButton<")
                  /\ BeforeIn(doc, "function ToolButton<") < BeforeIn(doc, "export function ToolBar()") )
         [] script = "update-classification-section" ->
               BeforeIn(doc, "  // Helper to match display string") < BeforeIn(doc, "  const classYears = [")
         [] OTHER -> FALSE

OutOfOrder == OutOfOrderIn(Input)

C5_OutOfOrderFails ==
    OutOfOrder => ~(pc = "done" /\ status = "ok" /\ wrote /= <<>>)

\* ------------------------------------------------------------ partial writes
\* the files a script writes, in the order of its open(..., "w") calls
WriteOrder ==
    CASE script = "split-template-blueprint" ->
           << "template-blueprint-types.tsx", "template-blueprint-media.tsx",
              "template-blueprint-slot-views.tsx", "template-blueprint-live.tsx",
              "template-blueprint.tsx" >>
      [] script = "split-canvas-projection" -> << "canvas-projection.ts", "canvas-lesson-projector.ts" >>
      [] script = "split-toolbar" -> << "ToolBar.tsx", "toolbar-options.tsx" >>
      [] OTHER -> << OriginalPath[script] >>

\* what the current run computed for a file it writes
NewContent(path) ==
    CASE path = "template-blueprint-types.tsx" -> TB_types_content(loc)
      [] path = "template-blueprint-media.tsx" -> TB_media_content(loc)
      [] path = "template-blueprint-slot-views.tsx" -> TB_slot_content(loc)
      [] path = "template-blueprint-live.tsx" -> TB_live_content(loc)
      [] path = "template-blueprint.tsx" -> TB_new_main_content(loc)
      [] path = "canvas-projection.ts" -> CV_projection_lines(loc.all_lines, loc.boundary_line)
      [] path = "canvas-lesson-projector.ts" -> CV_projector_content(loc.all_lines, loc.boundary_line)
      [] path = "ai-generation-service.ts" -> AI_new_content(loc.all_lines, loc.match_start)
      [] path = "ToolBar.tsx" -> TL_new_toolbar_content(loc)
      [] path = "toolbar-options.tsx" -> TL_options_content(loc)
      [] path = "classification-section.tsx" -> CL_new_src(loc.all_lines, loc.start_idx, loc.end_idx)
      [] path = "page.tsx" -> loc.src
      [] path = "schedule-section.tsx" -> loc.src

IsPrefix(a, b) == Len(a) <= Len(b) /\ a = SubSeq(b, 1, Len(a))

HeaderImports ==
    CASE script = "split-template-blueprint" -> TB_HeaderImports
      [] script = "split-canvas-projection" -> CV_HeaderImports
      [] OTHER -> {}

\* the names a script makes exported in a file it writes
Promoted(path) ==
    CASE path = "template-blueprint-types.tsx" -> TB_TypesPromoted
      [] path = "template-blueprint-media.tsx" -> TB_MediaPromoted
      [] path = "template-blueprint-slot-views.tsx" -> TB_SlotPromoted
      [] path = "template-blueprint-live.tsx" -> TB_LivePromoted
      [] OTHER -> {}

\* the declarations of sym in a file, by position
DeclsOf(path, sym) ==
    {k \in 1..Len(fs[path].lines) : fs[path].lines[k].kind = "decl" /\ fs[path].lines[k].sym = sym}

SameText == \A p \in DOMAIN fs : fs[p].exists = fs0[p].exists /\ Text(fs[p].lines) = Text(fs0[p].lines)

\* the document the first run started from
Original == fsInit[OriginalPath[script]].lines

\* the number of lines of a file that open the import block of module
ImportsOf(lines, module) ==
    Cardinality({i \in 1..Len(lines) : Text(<<lines[i]>>) = <<L("import_open", module, 0)>>})

\* C8 as stated: a second run of a marker-based script, started on the files
\* its first successful run produced, leaves every file unchanged (stated for
\* original documents whose markers each match one line, in order).
C8_AsStated ==
    (run = 2 /\ pc = "done" /\ status = "ok" /\ ~OutOfOrderIn(Original) /\ ~AmbiguousIn(Original))
        => SameText

\* C8 amended: a second run of split-canvas-projection or update-ai-service
\* finds its marker gone, exits non-zero and leaves every file unchanged; so
\* does a second run of split-template-blueprint, split-toolbar or
\* update-classification-section when every marker matched exactly one line
\* of the original document and the matches were in order.  A second run of
\* update-coursebuilder-page or update-schedule-section that completes has
\* inserted its import block once more, so the file is not unchanged.
C8_SecondRun ==
    (run = 2 /\ pc = "done") =>
        /\ script \in {"split-canvas-projection", "update-ai-service"} =>
              (status = "err" /\ wrote = <<>> /\ SameText)
        /\ ( /\ script \in {"split-template-blueprint", "split-toolbar",
                             "update-classification-section"}
             /\ ~AmbiguousIn(Original) /\ ~OutOfOrderIn(Original) ) =>
              (status = "err" /\ wrote = <<>> /\ SameText)
        /\ (script = "update-coursebuilder-page" /\ status = "ok") => ~SameText
        /\ (script = "update-schedule-section" /\ status = "ok") =>
              /\ ~SameText
              /\ ImportsOf(fs["schedule-section.tsx"].lines, "./schedule-section-utils")
                   = ImportsOf(fs0["schedule-section.tsx"].lines, "./schedule-section-utils") + 1

\* a second run of split-canvas-projection that stopped at the marker check
C8_Witness ==
    /\ script = "split-canvas-projection" /\ run = 2 /\ pc = "done" /\ status = "err"
    /\ fs["canvas-lesson-projector.ts"].exists
    /\ Len(fs["canvas-projection.ts"].lines) > 1

\* ------------------------------------------------- rewrite-create run twice
\* run q of the batch read the file exactly as run p, of the same script, had
\* written it: the script applied twice in a row
TwiceInARow(p, q) ==
    /\ p /= q /\ script[p] = script[q]
    /\ pc[p] = "done" /\ pc[q] = "done"
    /\ loc[q].lines = loc[p].new_lines

\* C9 as stated: applying rewrite-create.py (or rewrite-create-tailwind.py)
\* twice in a row yields the same file content as applying it once.
C9_AsStated ==
    \A p, q \in Runs : TwiceInARow(p, q) => loc[q].new_lines = loc[p].new_lines

\* C9 amended: the second application leaves the lines up to the end of the
\* new create section as the first left them, and shifts what follows:
\* rewrite-create.py replaces 330 lines by 333, so the last three lines of
\* its NEW_CREATE stay behind the section once more and the file grows by
\* three lines; rewrite-create-tailwind.py replaces 333 lines by 331, so the
\* (up to) two lines that followed the section after the first application
\* are deleted.
C9_SecondRunShiftsTail ==
    \A p, q \in Runs : TwiceInARow(p, q) =>
        LET once == loc[p].new_lines
            twice == loc[q].new_lines
            n == Len(NEW_CREATE(script[p]))
            e == CREATE_START + n
        IN  /\ SubSeq(twice, 1, e) = SubSeq(once, 1, e)
            /\ script[p] = "rewrite-create" =>
                  /\ twice = SubSeq(once, 1, e) \o SubSeq(once, e - 2, e) \o SubSeq(once, e + 1, Len(once))
                  /\ Len(twice) = Len(once) + 3
            /\ script[p] = "rewrite-create-tailwind" =>
                  /\ twice = SubSeq(once, 1, e) \o SubSeq(once, Min(e + 3, Len(once) + 1), Len(once))
                  /\ Len(twice) = Len(once) - Min(2, Len(once) - e)

\* rewrite-create.py applied twice in a row, and the file three lines longer
C9_Witness ==
    \E p, q \in Runs :
        /\ TwiceInARow(p, q) /\ script[p] = "rewrite-create"
        /\ wrote = <<p, q>>
        /\ Len(fs["coursebuilder.html"].lines) = Len(loc[p].new_lines) + 3

C11_Idempotent ==
    (run >= 2 /\ status = "ok") => fs[CleanPath] = fs0[CleanPath]

\* the text nodes of a page, in order
TextsOf(x) == SelectSeq(x, LAMBDA t : t.k = "text")

PageIn == fs0[CleanPath].lines

PageOut == fs[CleanPath].lines

CleanedOk == run >= 1 /\ status = "ok"

FilterBarDone ==
    script = "update-atlas-filter-bar" /\ pc = "done" /\ status = "ok" /\ run = 1

IsUse(l) == l.kind \in {"use", "use_anchor_close"}

\* the line of the file before the run from which a written line stems
OriginOf(l) == fs0[FB_Path].lines[l.src]

\* the file before the run holds the definition of IscedPanel between the
\* first start marker and the end marker that follows it, and nowhere else
DefinitionEnclosed ==
    LET lines == fs0[FB_Path].lines
        s == FirstIdx({i \in 1..Len(lines) : Text(<<lines[i]>>) = <<FB_StartMarker>>})
        e == FirstIdx({i \in 1..Len(lines) : Text(<<lines[i]>>) = <<FB_EndMarker>> /\ i - 1 >= s})
    IN  \A i \in 1..Len(lines) :
            Text(<<lines[i]>>) = <<FB_Definition>> => (s < i - 1 /\ i - 1 < e)

\* C13: after a successful run of update-atlas-filter-bar (on a file whose
\* markers enclose the definition) the definition of IscedPanel is gone, no
\* use of <IscedPanel is left, every former use of IscedPanel is a use of
\* AtlasIscedPanel that gained the props iscedSearch and setIscedSearch, and
\* no other element gained them
C13_RenameConsistent ==
    (FilterBarDone /\ DefinitionEnclosed) =>
        \A i \in 1..Len(fs[FB_Path].lines) :
            LET l == fs[FB_Path].lines[i]
            IN  /\ l /= [FB_Definition EXCEPT !.src = l.src]
                /\ ~(IsUse(l) /\ l.sym = "IscedPanel")
                /\ (l.src > 0 /\ IsUse(l)) =>
                      IF OriginOf(l).sym = "IscedPanel"
                      THEN l.sym = "AtlasIscedPanel" /\ l.exp = OriginOf(l).exp + 1
                      ELSE l.sym = OriginOf(l).sym /\ l.exp = OriginOf(l).exp

\* ===================================================== properties of the cuts
\* the first run of script s has ended with exit status 0
RunDone(s) == script = s /\ pc = "done" /\ status = "ok" /\ run = 1

\* how often line i of the input occurs among lines
Count(lines, i) == Cardinality({k \in 1..Len(lines) : lines[k].src = i})

LeastOf(S) == CHOOSE i \in S : \A j \in S : i <= j

\* the 1-based position of the first line of doc that contains pattern
FirstLine(doc, pattern) == LeastOf(Hits(doc, pattern))

\* the 1-based position of the first line of doc, from position from on, that
\* contains pattern
FirstLineFrom(doc, pattern, from) == LeastOf({i \in Hits(doc, pattern) : i >= from})

FB_In == fs0[FB_Path].lines

FB_Out == fs[FB_Path].lines

CL_In == fs0["classification-section.tsx"].lines

CL_Out == fs["classification-section.tsx"].lines

CV_In == fs0["canvas-projection.ts"].lines

FB_Patterns ==
    { "import { TAXONOMY, CATEGORY_KEYS, layerToCat, type CatKey } from ./atlas-taxonomy",
      "  // -- ISCED mini-panel", "  // -- Render" }

\* the texts update-atlas-page searches for
AP_Patterns ==
    { "import { ENTITY_TYPES, MEDIA_TYPES, PRODUCT_TYPES, ACTIVITY_TYPES, ISCED_DOMAINS, getLayerName } from @/types/atlas",
      "startswith: type SearchParams", "startswith: function getSingleParam",
      "startswith: export default async function TeacherAtlasPage" }

\* the texts update-route searches for
RT_Patterns ==
    { "import type { GenerationAction } from @/lib/curriculum/ai-generation-service",
      "/** Shape of each lesson in the generated curriculum */",
      "startswith: const SYSTEM_PROMPT_BASE" }

\* the file each of the six scripts reads, and the texts it searches for
LookupPath ==
    CASE script = "split-template-blueprint" -> "template-blueprint.tsx"
      [] script = "split-toolbar" -> "ToolBar.tsx"
      [] script = "split-canvas-projection" -> "canvas-projection.ts"
      [] script = "update-atlas-filter-bar" -> FB_Path
      [] script = "update-atlas-page" -> AP_Path
      [] script = "update-route" -> RT_Path

LookupPatterns ==
    CASE script = "split-template-blueprint" -> TB_Patterns
      [] script = "split-toolbar" -> TL_Patterns
      [] script = "split-canvas-projection" -> {"startswith: function estimateSessionPages"}
      [] script = "update-atlas-filter-bar" -> FB_Patterns
      [] script = "update-atlas-page" -> AP_Patterns
      [] script = "update-route" -> RT_Patterns

LookupScripts ==
    {"split-template-blueprint", "split-toolbar", "split-canvas-projection",
     "update-atlas-filter-bar", "update-atlas-page", "update-route"}

\* a text the script searches for is on no line of the file the run started from
SomeMarkerAbsent ==
    \E pt \in LookupPatterns : Hits(fs0[LookupPath].lines, pt) = {}

\* C15: in the six scripts every marker lookup is over before the first file
\* is opened for writing: while a marker is missing from the file a run
\* started from, the run has written nothing and every file is as it was,
\* also after steps that changed the content in memory
C15_LookupsBeforeWrites ==
    (script \in LookupScripts /\ SomeMarkerAbsent) => (wrote = <<>> /\ fs = fs0)

\* a run of update-atlas-page that added the imports to the content in memory,
\* then missed a marker and ended with every file untouched
C15_Witness ==
    /\ script = "update-atlas-page"
    /\ SomeMarkerAbsent
    /\ pc = "done" /\ status = "err"
    /\ loc.content /= loc.all_lines
    /\ fs = fs0

\* ===================================================== properties of split-toolbar
TL_In == fs0["ToolBar.tsx"].lines

\* the positions of the input lines a file holds, in the order it holds them
SrcSeq(lines) == [k \in 1..Len(SelectSeq(lines, LAMBDA l : l.src > 0)) |->
                     SelectSeq(lines, LAMBDA l : l.src > 0)[k].src]

Increasing(q) == \A k \in 1..(Len(q) - 1) : q[k] < q[k + 1]

\* C16: whenever the four markers are found, the lines split-toolbar writes to
\* ToolBar.tsx (without the inserted import) and to toolbar-options.tsx
\* (without its header) are the original lines of ToolBar.tsx, each exactly
\* once, in their original order within each file
C16_Partition ==
    RunDone("split-toolbar") =>
        /\ \A i \in 1..Len(TL_In) :
              Count(fs["ToolBar.tsx"].lines, i) + Count(fs["toolbar-options.tsx"].lines, i) = 1
        /\ Increasing(SrcSeq(fs["ToolBar.tsx"].lines))
        /\ Increasing(SrcSeq(fs["toolbar-options.tsx"].lines))

\* ===================================================== properties of split-canvas-projection
\* the 1-based position of the boundary line in the file the run started from
CV_Boundary == FirstLine(CV_In, "startswith: function estimateSessionPages")

\* the position of the last line in front of the boundary that is not blank
\* (0 when there is none)
CV_LastKept ==
    LET S == {i \in 1..(CV_Boundary - 1) : CV_In[i].kind /= "blank"}
    IN  IF S = {} THEN 0 ELSE CHOOSE i \in S : \A j \in S : j <= i

ImportingScripts == {"split-toolbar", "update-coursebuilder-page", "update-schedule-section"}

\* the file that receives the new import, as a successful run left it
ImportOut == fs[OriginalPath[script]].lines

\* the positions in that file where the run put the first line of its import
InsertedAt ==
    {k \in 1..Len(ImportOut) :
        /\ ImportOut[k].src = 0
        /\ ImportOut[k].kind \in {"import", "import_open"}
        /\ ImportOut[k].sym \in {"ToolOptionsStrip", "./page-section-registry",
                                 "./schedule-section-utils"}}

\* the new import does not stand between the line that opens a multi-line
\* import statement and the line that closes it
NotInsideImport ==
    \A k \in InsertedAt : k = 1 \/ ImportOut[k - 1].kind \notin {"import_open", "import_cont"}

\* when the file the run started from has no import line, the new import is
\* in front of everything else
FirstWhenNoImport ==
    Hits(fs0[OriginalPath[script]].lines, "startswith: import") = {} => InsertedAt = {1}

\* C18: split-toolbar, update-coursebuilder-page and update-schedule-section
\* insert the new import behind the end of the last import statement, never
\* inside a multi-line import, and in front of all content when the file has
\* no import line
C18_AfterLastImportStatement ==
    (script \in ImportingScripts /\ pc = "done" /\ status = "ok") =>
        (NotInsideImport /\ FirstWhenNoImport)

\* ===================================================== properties of the fallback search
\* update-coursebuilder-page has passed its marker search by the fallback branch
FallbackTaken ==
    /\ script = "update-coursebuilder-page" /\ pc = "done" /\ status = "ok"
    /\ ~loc.resolved.primary

\* the text the markers are searched in, and what the primary markers give in it
SearchedSrc == CB_insert_import(loc.all_lines)

PrimaryStart == CB_find(SearchedSrc, 1, "// --- View navigation helpers ------")

PrimaryEnd == CB_find(SearchedSrc, 0, "// --- Section router ------")

StartKept == PrimaryStart /= -1 => loc.resolved.start_idx = PrimaryStart

EndKept == PrimaryEnd /= -1 => loc.resolved.end_idx = PrimaryEnd

\* with an offset unresolved no line of the file is removed but icon lines
NothingCutWhenUnresolved ==
    loc.missing =>
        \A i \in 1..Len(loc.all_lines) :
            loc.all_lines[i].kind /= "import_cont" =>
                \E k \in 1..Len(loc.src) : loc.src[k].src = loc.all_lines[i].src

\* C19: in the fallback search of update-coursebuilder-page an offset the
\* primary marker resolved is kept, only the failed marker is searched again
\* with its alternates, and the block is removed only with both offsets resolved
C19_FallbackKeepsResolved ==
    FallbackTaken => (StartKept /\ EndKept /\ NothingCutWhenUnresolved)

\* ===================================================== properties of a batch of rewrites
HtmlNow == fs["coursebuilder.html"].lines

HtmlInit == fsInit["coursebuilder.html"].lines

\* the lines in front of the create section, and the "<!-- Preview View -->"
\* line with all that follows it, in the file the batch started from
HtmlHead == SubSeq(HtmlInit, 1, CREATE_START)

HtmlTail == SubSeq(HtmlInit, RC_CREATE_END + 1, Len(HtmlInit))

LastWriter == wrote[Len(wrote)]

\* the head, one create section and nothing of an earlier one, the tail
OneSectionIntact ==
    \E s \in RW_Scripts : HtmlNow = HtmlHead \o NEW_CREATE(s) \o HtmlTail

\* in the lines run p read, the "<!-- Preview View -->" line and what follows
\* it start right behind the range p replaces
RangeFits(p) ==
    LET read == loc[p].lines
        e == CREATE_END(script[p])
    IN  /\ Len(read) = e + Len(HtmlTail)
        /\ SubSeq(read, e + 1, Len(read)) = HtmlTail

\* C20 as stated: after any sequence of runs of the two scripts the lines in
\* front of line 1583 and the lines from "<!-- Preview View -->" on are in
\* the file once and unchanged, with exactly one create section between them.
C20_AsStated == wrote /= <<>> => OneSectionIntact

\* C20 amended: the lines in front of line 1583 are unchanged after any
\* sequence of runs, and behind them stands the whole NEW_CREATE of the run
\* that wrote last.  The "<!-- Preview View -->" line and the lines after it
\* follow that section, once and unchanged, exactly when they began right
\* behind the replaced range in the file the last writer read (line 1913 for
\* rewrite-create.py, line 1916 for rewrite-create-tailwind.py).
C20_HeadKeptTailIfRangeFits ==
    /\ Len(HtmlNow) >= CREATE_START /\ SubSeq(HtmlNow, 1, CREATE_START) = HtmlHead
    /\ wrote /= <<>> =>
          LET n == Len(NEW_CREATE(script[LastWriter]))
          IN  /\ Len(HtmlNow) >= CREATE_START + n
              /\ SubSeq(HtmlNow, CREATE_START + 1, CREATE_START + n) = NEW_CREATE(script[LastWriter])
              /\ OneSectionIntact <=> RangeFits(LastWriter)

\* rewrite-create.py has run, rewrite-create-tailwind.py has read what it
\* wrote and has written: one create section, head and tail intact
C20_Witness ==
    /\ Len(wrote) = 2
    /\ script[wrote[1]] = "rewrite-create" /\ script[wrote[2]] = "rewrite-create-tailwind"
    /\ loc[wrote[2]].lines = loc[wrote[1]].new_lines
    /\ Len(HtmlTail) > 1
    /\ OneSectionIntact

\* ===================================================== properties of one rewrite
\* C21: one run of rewrite-create.py on a file of at least CREATE_END lines
\* leaves the lines [0, CREATE_START) and [CREATE_END, end) as they were and
\* in their order, and puts NEW_CREATE in the place of [CREATE_START, CREATE_END)
C21_ReplacesHalfOpenRange ==
    \A p \in Runs :
        (pc[p] = "done" /\ script[p] = "rewrite-create" /\ Len(loc[p].lines) >= RC_CREATE_END) =>
            LET read == loc[p].lines
                out == loc[p].new_lines
                e == CREATE_START + RC_NEW_CREATE_LINES
            IN  /\ Len(out) = Len(read) - (RC_CREATE_END - CREATE_START) + RC_NEW_CREATE_LINES
                /\ SubSeq(out, 1, CREATE_START) = SubSeq(read, 1, CREATE_START)
                /\ SubSeq(out, CREATE_START + 1, e) = NEW_CREATE("rewrite-create")
                /\ SubSeq(out, e + 1, Len(out)) = SubSeq(read, RC_CREATE_END + 1, Len(read))
                /\ LastWriter = p => HtmlNow = out

\* rewrite-create.py has run once on the starting file, which has lines
\* behind the "<!-- Preview View -->" line
C21_Witness ==
    \E p \in Runs :
        /\ wrote = <<p>> /\ script[p] = "rewrite-create"
        /\ Len(loc[p].lines) > RC_CREATE_END + 1
        /\ HtmlNow = loc[p].new_lines

\* ===================================================== properties of update-ai-service
AI_In == fs0["ai-generation-service.ts"].lines

AI_Out == fs["ai-generation-service.ts"].lines

\* the positions of the lines that start with "function tokenizeSeedText"
AI_Boundaries == Hits(AI_In, "startswith: function tokenizeSeedText")

\* the lines in front of position b, as they were, then the re-export block
AI_CutAt(b) == AI_Out = SubSeq(AI_In, 1, b - 1) \o <<Hdr("re-exports")>>

\* nothing is written and the run, once over, has exit status 1
AI_ExitsUnwritten ==
    /\ wrote = <<>> /\ AI_Out = AI_In
    /\ pc = "done" => status = "err"

NavRun == script = "update_nav_classes"

\* the paths opened for writing in this run
Opened == {wrote[k] : k \in 1..Len(wrote)}

\* the rules change the content file p had when the run started
NeedsChange(p) == nav_content(fs0[p].lines) /= fs0[p].lines

\* C23: update_navigation_classes writes a file exactly when the rewritten
\* content differs from the content read and returns True exactly then; the
\* total of main is the number of files written; a file that needs no change
\* is never opened for writing
C23_WritesIffChanged ==
    NavRun =>
        /\ \A p \in BatchPaths :
              /\ loc.outcome[p] = "updated" =>
                    (NeedsChange(p) /\ p \in Opened /\ fs[p].lines = nav_content(fs0[p].lines))
              /\ loc.outcome[p] = "unchanged" =>
                    (~NeedsChange(p) /\ p \notin Opened /\ fs[p] = fs0[p])
              /\ p \in Opened => NeedsChange(p)
              /\ loc.outcome[p] = "pending" => (p \notin Opened /\ fs[p] = fs0[p])
        /\ loc.updated_files = Cardinality({p \in BatchPaths : loc.outcome[p] = "updated"})
        /\ Len(wrote) = Cardinality(Opened)

\* main has returned: the first file was rewritten, the second needed nothing
C23_Witness ==
    /\ NavRun /\ pc = "done" /\ run = 1
    /\ loc.outcome[html_files[1]] = "updated" /\ loc.outcome[html_files[2]] = "unchanged"
    /\ fs0[html_files[2]].lines /= <<>>
    /\ loc.updated_files = 1

\* ===================================================== properties of the batches
\* C24: in cleanup-html-simple, cleanup-html-structure and update_nav_classes
\* a failure on one file does not stop the loop: main ends only when every
\* file had its turn, the other files are processed as without the failure,
\* and a file whose read or transformation failed is not written
C24_FailureSkipsOneFile ==
    script \in BatchScripts =>
        /\ status /= "err"
        /\ pc = "done" => \A p \in BatchPaths : loc.outcome[p] /= "pending"
        /\ \A p \in BatchPaths :
              /\ (loc.outcome[p] = "error" /\ p \notin Opened) => fs[p] = fs0[p]
              /\ loc.outcome[p] = "cleaned" =>
                    (p \in Opened /\ fs[p].lines = clean(script, fs0[p].lines))
              /\ loc.outcome[p] = "updated" => fs[p].lines = nav_content(fs0[p].lines)

\* a cleaner has gone through its batch: the read of the first file failed
\* and the file is as it was, the second file was cleaned and has changed
C24_Witness ==
    /\ script = "cleanup-html-simple" /\ pc = "done"
    /\ loc.outcome[html_files[1]] = "error" /\ html_files[1] \notin Opened
    /\ fs[html_files[1]] = fs0[html_files[1]] /\ fs0[html_files[1]].lines /= <<>>
    /\ loc.outcome[html_files[2]] = "cleaned"
    /\ fs[html_files[2]] /= fs0[html_files[2]]

\* ===================================================== properties of a second update_nav_classes
\* pat occurs in t
Occurs(pat, t) == \E i \in 0..(Len(t) - Len(pat)) : SubSeq(t, i + 1, i + Len(pat)) = pat

\* a rule's match with, directly in front of it, text that forms a new match
\* with the replacement: nav__nav__brand, nav__nav__cta, nav__nav__link" and
\* nav__link nav__link"
Rejoins(t) ==
    \/ Occurs(<<"nav__", "nav__", "brand">>, t)
    \/ Occurs(<<"nav__", "nav__", "cta">>, t)
    \/ Occurs(<<"nav__", "nav__", "link", "q">>, t)
    \/ Occurs(<<"nav__", "link", "sp", "nav__", "link", "q">>, t)

\* in the second run, the files the first run rewrote and this run has
\* processed without an exception
Revisited == {p \in BatchPaths : loc.prev[p] = "updated" /\ loc.outcome[p] \in {"updated", "unchanged"}}

\* C25 as stated: update_navigation_classes is idempotent: on a file it has
\* already rewritten it finds nothing to change and does not write.
C25_AsStated ==
    (NavRun /\ run = 2) => \A p \in Revisited : loc.outcome[p] = "unchanged" /\ p \notin Opened

\* C25 amended: on a file it has already rewritten a second run finds
\* nothing to change and does not write, except when the file given to the
\* first run held 'nav__' directly in front of 'nav__brand', 'nav__cta' or
\* 'nav__link"', or 'nav__link ' directly in front of 'nav__link"': there the
\* first replacement joins the text in front of it to a new match, and the
\* second run rewrites the file again.
C25_IdempotentUnlessRejoined ==
    (NavRun /\ run = 2) =>
        \A p \in Revisited :
            IF Rejoins(fsInit[p].lines)
            THEN loc.outcome[p] = "updated" /\ fs[p] /= fs0[p]
            ELSE loc.outcome[p] = "unchanged" /\ p \notin Opened /\ fs[p] = fs0[p]

\* the second run is over; the first file, which held a list, a header link
\* and nothing that joins, was rewritten by the first run and is unchanged now
C25_Witness ==
    /\ NavRun /\ run = 2 /\ pc = "done"
    /\ html_files[1] \in Revisited
    /\ Occurs(<<"nav__", "link", "sp", "link", "q">>, fsInit[html_files[1]].lines)
    /\ Occurs(<<"nav__", "item">>, fsInit[html_files[1]].lines)
    /\ loc.outcome[html_files[1]] = "unchanged"
    /\ wrote = <<>>

\* ===================================================== properties of the indentation loop
\* the elements that lines 1..k of the page open and leave open
RECURSIVE OpenAfter(_, _)
OpenAfter(lines, k) ==
    IF k = 0 THEN 0
    ELSE OpenAfter(lines, k - 1)
           + (IF lines[k].stripped = "open" THEN 1 ELSE 0)
           - (IF lines[k].stripped = "close" THEN 1 ELSE 0)

\* no end tag without its element, no element left open
WellFormed(lines) ==
    /\ \A k \in 1..Len(lines) : OpenAfter(lines, k) >= 0
    /\ OpenAfter(lines, Len(lines)) = 0

\* C26: in the re-indentation of cleanup-html-simple the indent level is
\* never negative, and on well-formed markup every non-blank line is written
\* with two spaces per element that is open where the line stands (an end
\* tag standing at the level of its start tag); a line that opens and closes
\* an element and a void element the list lacks leave the level as it is,
\* and the level is 0 after the last line
C26_IndentFollowsNesting ==
    (script = "cleanup-html-simple" /\ pc \in {"indent", "done"}) =>
        /\ loc.indent_level >= 0
        /\ WellFormed(loc.lines) =>
              /\ loc.indent_level = OpenAfter(loc.lines, loc.i)
              /\ \A k \in 1..Len(loc.fixed_lines) :
                    loc.fixed_lines[k].stripped /= "blank" =>
                        loc.fixed_lines[k].indent =
                            2 * (IF loc.lines[k].stripped = "close"
                                 THEN OpenAfter(loc.lines, k) ELSE OpenAfter(loc.lines, k - 1))
              /\ pc = "done" => loc.indent_level = 0

\* ===================================================== properties of the promotion
\* the names whose declarations a script makes exported in a file it writes
PromotedIn(path) ==
    IF path = "toolbar-options.tsx" THEN {"ToolOptionsStrip"} ELSE Promoted(path)

PromotingScripts == {"split-toolbar", "split-template-blueprint"}

\* C27: after the promotion replacements of split-toolbar and
\* split-template-blueprint every declaration of a promoted symbol carries
\* exactly one export, also when the source had it exported already, and
\* every other line taken from the source is as it was
C27_SingleExport ==
    (SplitDone /\ script \in PromotingScripts) =>
        \A path \in DOMAIN fs : \A k \in 1..Len(fs[path].lines) :
            LET line == fs[path].lines[k]
            IN  (path /= OriginalPath[script] /\ line.src /= 0) =>
                  IF line.kind = "decl" /\ line.sym \in PromotedIn(path)
                  THEN line.exp = 1
                  ELSE Text(<<line>>) = Text(<<Input[line.src]>>)

\* ===================================================== properties of rebuild-isced-data
IscedDone == script = "rebuild-isced-data" /\ pc = "done" /\ status = "ok"

\* the rows read and the hierarchy written
IscedIn == fsInit[IscedCsv].lines

Json == fs[IscedJson].lines

\* the places of the broad, narrow and detailed nodes of the hierarchy:
\* <<b, 0, 0>>, <<b, n, 0>> and <<b, n, d>>
BroadAt == {<<b, 0, 0>> : b \in 1..Len(Json)}

NarrowAt ==
    UNION { {<<b, n, 0>> : n \in 1..Len(Json[b].subjects)} : b \in 1..Len(Json) }

DetailedAt ==
    UNION { {<<q[1], q[2], d>> : d \in 1..Len(Json[q[1]].subjects[q[2]].topics)} : q \in NarrowAt }

NodeAt(q) ==
    IF q[2] = 0 THEN Json[q[1]]
    ELSE IF q[3] = 0 THEN Json[q[1]].subjects[q[2]]
    ELSE Json[q[1]].subjects[q[2]].topics[q[3]]

\* the number a code reads as
RECURSIVE CodeNum(_)
CodeNum(c) == IF c = <<>> THEN 0 ELSE 10 * CodeNum(SubSeq(c, 1, Len(c) - 1)) + c[Len(c)]

Ascending(nodes) ==
    \A k \in 1..(Len(nodes) - 1) : CodeNum(nodes[k].code) < CodeNum(nodes[k + 1].code)

\* the rows that carry a code
RowsOf(c) == {i \in 1..Len(IscedIn) : IscedIn[i].notation = c}

FirstRowLabel(q) ==
    LET at == RowsOf(NodeAt(q).code)
    IN  /\ at /= {}
        /\ NodeAt(q).label = IscedIn[CHOOSE i \in at : \A j \in at : i <= j].label

\* C28: in the hierarchy written every code occurs once, a narrow node sits
\* under the broad node of its first two digits and a detailed node under
\* the narrow node of its first three, siblings ascend by code, a detailed
\* node has the one subtopic "Other", and a node's label is that of the
\* first row with its code
C28_HierarchyWellFormed ==
    IscedDone =>
        LET all == BroadAt \cup NarrowAt \cup DetailedAt
        IN  /\ \A q \in all : \A r \in all : q /= r => NodeAt(q).code /= NodeAt(r).code
            /\ \A q \in BroadAt : Len(NodeAt(q).code) = 2
            /\ \A q \in NarrowAt :
                   /\ Len(NodeAt(q).code) = 3
                   /\ SubSeq(NodeAt(q).code, 1, 2) = Json[q[1]].code
            /\ \A q \in DetailedAt :
                   /\ Len(NodeAt(q).code) = 4
                   /\ SubSeq(NodeAt(q).code, 1, 3) = Json[q[1]].subjects[q[2]].code
                   /\ Len(NodeAt(q).subtopics) = 1
                   /\ NodeAt(q).subtopics[1].label = "Other"
                   /\ NodeAt(q).subtopics[1].code = <<NodeAt(q).code, "other">>
            /\ Ascending(Json)
            /\ \A q \in BroadAt : Ascending(NodeAt(q).subjects)
            /\ \A q \in NarrowAt : Ascending(NodeAt(q).topics)
            /\ \A q \in all : FirstRowLabel(q)

\* a hierarchy with a narrow node under a broad node whose code came in two
\* rows with different labels
C28_Witness ==
    /\ IscedDone
    /\ \E q \in NarrowAt :
           \E i \in RowsOf(Json[q[1]].code) : \E j \in RowsOf(Json[q[1]].code) :
               IscedIn[i].label /= IscedIn[j].label

\* C29: the counts printed are the numbers of broad, narrow and detailed
\* nodes in the JSON written, whatever codes the rows hold
C29_CountsMatchJson ==
    IscedDone =>
        /\ loc.printed.broad = Cardinality(BroadAt)
        /\ loc.printed.narrow = Cardinality(NarrowAt)
        /\ loc.printed.detailed = Cardinality(DetailedAt)


====
